---------------------------- MODULE Spec2Model ----------------------------
(***************************************************************************)
(* Model of the candelivers routing core: RouteOptimizer.optimize          *)
(* (services/routing/src/optimizer.py) over DistanceMatrix                 *)
(* (services/routing/src/distance.py).                                     *)
(*                                                                         *)
(* Conventions.                                                            *)
(*  - An order or a vehicle is named by its position in the input list.    *)
(*    Python counts positions from 0, the model from 1, so the stop k of   *)
(*    the model is the order index k-1 of the code, and a route's          *)
(*    vehicle_id is the position of its vehicle (ids are taken distinct).  *)
(*  - A location is a point of the equator, 2 km apart from the next one:  *)
(*    the location c stands for (0.0, c * 2/6371 rad).  On the equator     *)
(*    the haversine formula reduces to R * |dlng|, so distances are the    *)
(*    even numbers of kilometres 2 * |c1 - c2|.                            *)
(*  - Weights, volumes and capacities are small whole numbers, on which    *)
(*    the float additions and comparisons of the code are exact.           *)
(*  - An Optional location is a sequence of length 0 (None) or 1.          *)
(*  - CPython iterates a set of small ints in increasing order; the pool   *)
(*    of unassigned order indices is iterated that way.                    *)
(***************************************************************************)
EXTENDS Integers, Sequences, FiniteSets

\* ------------------------------------------------------------------ bounds
MaxOrders == 3
MaxVehicles == 3
MaxWeight == 3
MaxWeightCap == 4
MaxVolume == 1
VolumeCap == 2
MaxCoord == 1
GeoMaxOrders == 2
GeoMaxVehicles == 2
GeoMaxWeight == 2
TourMaxOrders == 3
RepeatMaxSize == 4
MaxCalls == 2
MaxLocations == 2
MaxMatrixCalls == 4
MaxLoads == 2
MaxUnload == 1
MaxLoad == 2
MaxLimit == 2
MaxWindows == 2
MaxHour == 1
MaxZoneIds == 3
MaxZones == 2
MaxConstraints == 1
MaxDrivingMinutes == 600
MaxTime == 2
MaxEvents == 3
MaxSubscriptions == 2
MaxRuns == 2
MaxTracked == 1
MaxStops == 3
MaxStored == 2
MaxFleet == 1
MaxStoredWeight == 2
ExpansionBits == 60

\* ------------------------------------------------------- program constants
AverageSpeedKmh == 40
PickupServiceMinutes == 15
DeliveryServiceMinutes == 30
Precision == 53
MaxShiftHours == 10
BreakAfterHours == 5
AvgSpeedKmh == 40
ServiceTimeMinutes == 30

VARIABLES
    orders,             \* optimize argument: list of Order
    vehicles,           \* optimize argument: list of Vehicle
    improve_with_2opt,  \* optimize argument
    use_cache,          \* DistanceMatrix.use_cache
    cache,              \* DistanceMatrix._cache: location tuple -> matrix
    pc,                 \* position inside optimize
    locations,          \* optimize local
    distance_matrix,    \* optimize local
    routes,             \* _nearest_neighbor_initial_solution local / result
    unassigned,         \* shared pool of unassigned order indices
    vi,                 \* position of the vehicle loop
    route_orders,       \* per-vehicle locals of the greedy loop
    current_weight,
    current_volume,
    current_location,
    leftover,           \* iteration of the pool in the salvage pass
    ri,                 \* position of the route loop of _improve_with_2opt
    stops,              \* _improve_with_2opt local
    improved,           \* _improve_with_2opt local
    result,             \* value returned by optimize
    calls,              \* number of the optimize call on this caller's side
    previous,           \* what the caller kept of the call before
    hit,                \* compute_distance_matrix returned from the cache
    since_clear,        \* location lists computed since the cache was empty
    constraint,         \* a VehicleCapacityConstraint
    route_loads,        \* validate argument: list of (weight_kg, volume_m3)
    valid,              \* value returned by validate
    args,               \* arguments of the validate call of the other kinds
    constraints,        \* ConstraintChecker.constraints
    request_ids,        \* /optimize: the id of each order of the request
    response,           \* /optimize: the OptimizationResult returned
    event_queue,        \* SimulationEngine.event_queue, a heapq list
    callbacks,          \* SimulationEngine.callbacks
    current_time,       \* SimulationEngine.state.current_time
    end_time,           \* argument of the last run
    received,           \* the calls of _dispatch_event of the last run
    pending,            \* events given to schedule_event, not yet dispatched
    follow_ups,         \* events the callbacks scheduled in the last run
    positions,          \* VehicleTracker.positions
    tracker_routes,     \* VehicleTracker.routes
    tracker_callbacks,  \* VehicleTracker.callbacks
    emitted,            \* the last call of VehicleTracker._emit_event
    eta,                \* the last operation's calculate_eta, if it was one
    orders_db,          \* order API: the orders stored, by id
    vehicles_db,        \* order API: the vehicles stored, by id
    routes_db,          \* order API: the routes stored, by id
    store_response      \* order API: the last request to a store, answered

vars == << orders, vehicles, improve_with_2opt, use_cache, cache, pc,
           locations, distance_matrix, routes, unassigned, vi, route_orders,
           current_weight, current_volume, current_location, leftover, ri,
           stops, improved, result, calls, previous, hit, since_clear,
           constraint, route_loads, valid, args, constraints,
           request_ids, response, event_queue, callbacks, current_time,
           end_time, received, pending, follow_ups, positions,
           tracker_routes, tracker_callbacks, emitted, eta, orders_db,
           vehicles_db, routes_db, store_response >>

\* ---------------------------------------------------------------- helpers
Coords == 0..MaxCoord

Range(s) == { s[k] : k \in 1..Len(s) }

Min(S) == CHOOSE x \in S : \A y \in S : x <= y

RECURSIVE SetToSeq(_)
\* iteration order of a Python set of small ints: increasing
SetToSeq(S) == IF S = {} THEN << >>
               ELSE << Min(S) >> \o SetToSeq(S \ { Min(S) })

SeqsUpTo(S, n) == UNION { [1..k -> S] : k \in 0..n }

\* ------------------------------------------------------------ distance.py
Haversine(a, b) == IF a >= b THEN 2 * (a - b) ELSE 2 * (b - a)

DistanceBetween(loc1, loc2) == Haversine(loc1, loc2)

\* mutant: the pair is not mirrored, the lower triangle stays as np.zeros
\* made it
ComputeMatrixNoMirror(locs) ==
    [ i \in 1..Len(locs) |->
        [ j \in 1..Len(locs) |->
            IF i < j THEN Haversine(locs[i], locs[j]) ELSE 0 ] ]

\* lines 66-75
ComputeMatrix(locs) ==
    [ i \in 1..Len(locs) |->
        [ j \in 1..Len(locs) |->
            IF i = j THEN 0
            ELSE IF i < j THEN Haversine(locs[i], locs[j])
                 ELSE Haversine(locs[j], locs[i]) ] ]

CacheHit(locs) == use_cache /\ locs \in DOMAIN cache

ComputeDistanceMatrix(locs) ==
    IF CacheHit(locs) THEN cache[locs] ELSE ComputeMatrix(locs)

\* mutant: the matrix is stored whether the cache is in use or not
CacheAfterAlways(locs) ==
    [ k \in (DOMAIN cache) \cup { locs } |->
        IF k = locs THEN ComputeMatrix(locs) ELSE cache[k] ]

\* mutant: the matrix is not stored
CacheAfterNoStore(locs) == cache

\* lines 77-78
CacheAfter(locs) ==
    IF use_cache /\ ~CacheHit(locs)
    THEN [ k \in (DOMAIN cache) \cup { locs } |->
             IF k = locs THEN ComputeMatrix(locs) ELSE cache[k] ]
    ELSE cache

\* --------------------------------------------------------- constraints.py
RECURSIVE ValidateLoopAtLimit(_, _, _, _, _)
\* mutant: a total that reaches its maximum is refused
ValidateLoopAtLimit(c, loads, k, total_weight, total_volume) ==
    IF k > Len(loads) THEN TRUE
    ELSE LET weight == total_weight + loads[k][1]
             volume == total_volume + loads[k][2]
         IN IF weight >= c.max_weight_kg THEN FALSE
            ELSE IF volume >= c.max_volume_m3 THEN FALSE
            ELSE ValidateLoopAtLimit(c, loads, k + 1, weight, volume)

RECURSIVE ValidateLoop(_, _, _, _, _)
\* the for loop of lines 65-73, from the load at k on
ValidateLoop(c, loads, k, total_weight, total_volume) ==
    IF k > Len(loads) THEN TRUE
    ELSE LET weight == total_weight + loads[k][1]
             volume == total_volume + loads[k][2]
         IN IF weight > c.max_weight_kg THEN FALSE
            ELSE IF volume > c.max_volume_m3 THEN FALSE
            ELSE ValidateLoop(c, loads, k + 1, weight, volume)

\* VehicleCapacityConstraint.validate, lines 54-75
Validate(c, loads) == ValidateLoop(c, loads, 1, 0, 0)

\* line 112
MinutesPerDay == 24 * 60

\* tw.earliest.hour * 60 + tw.earliest.minute, lines 108-109
MinuteOfDay(t) == t.hour * 60 + t.minute

RECURSIVE WindowsLoopLatestExcluded(_, _, _, _)
\* mutant: an arrival at the latest minute is refused
WindowsLoopLatestExcluded(time_windows, arrival_times, start_time, k) ==
    IF k > Len(time_windows) \/ k > Len(arrival_times) THEN TRUE
    ELSE LET arrival_time == start_time + arrival_times[k]
             earliest_min == MinuteOfDay(time_windows[k].earliest)
             latest_min == MinuteOfDay(time_windows[k].latest)
             arrival_min_of_day == arrival_time % MinutesPerDay
         IN IF \/ arrival_min_of_day >= latest_min
               \/ arrival_min_of_day < earliest_min
            THEN FALSE
            ELSE WindowsLoopLatestExcluded(time_windows, arrival_times,
                                           start_time, k + 1)

\* mutant: a window whose latest minute is before its earliest is taken to
\* run over midnight
RECURSIVE WindowsLoopOverMidnight(_, _, _, _)
WindowsLoopOverMidnight(time_windows, arrival_times, start_time, k) ==
    IF k > Len(time_windows) \/ k > Len(arrival_times) THEN TRUE
    ELSE LET arrival_time == start_time + arrival_times[k]
             earliest_min == MinuteOfDay(time_windows[k].earliest)
             latest_min == MinuteOfDay(time_windows[k].latest)
             arrival_min_of_day == arrival_time % MinutesPerDay
         IN IF IF latest_min < earliest_min
               THEN /\ arrival_min_of_day > latest_min
                    /\ arrival_min_of_day < earliest_min
               ELSE \/ arrival_min_of_day > latest_min
                    \/ arrival_min_of_day < earliest_min
            THEN FALSE
            ELSE WindowsLoopOverMidnight(time_windows, arrival_times,
                                         start_time, k + 1)

RECURSIVE WindowsLoop(_, _, _, _)
\* the for loop of lines 105-114 over zip(time_windows, arrival_times), from
\* the pair k on
WindowsLoop(time_windows, arrival_times, start_time, k) ==
    IF k > Len(time_windows) \/ k > Len(arrival_times) THEN TRUE
    ELSE LET arrival_time == start_time + arrival_times[k]
             earliest_min == MinuteOfDay(time_windows[k].earliest)
             latest_min == MinuteOfDay(time_windows[k].latest)
             arrival_min_of_day == arrival_time % MinutesPerDay
         IN IF \/ arrival_min_of_day > latest_min
               \/ arrival_min_of_day < earliest_min
            THEN FALSE
            ELSE WindowsLoop(time_windows, arrival_times, start_time, k + 1)

\* TimeWindowConstraint.validate, lines 89-116
ValidateWindows(time_windows, arrival_times, start_time) ==
    WindowsLoop(time_windows, arrival_times, start_time, 1)

\* mutant: only the first zone is looked at
ZonesLoopFirstOnly(excluded_zones, zones, k) ==
    zones = << >> \/ zones[1] \notin excluded_zones

RECURSIVE ZonesLoop(_, _, _)
\* the for loop of lines 187-189, from the zone k on
ZonesLoop(excluded_zones, zones, k) ==
    IF k > Len(zones) THEN TRUE
    ELSE IF zones[k] \in excluded_zones THEN FALSE
    ELSE ZonesLoop(excluded_zones, zones, k + 1)

\* ZoneRestrictionConstraint.validate, lines 178-190
ValidateZones(c, zones) == ZonesLoop(c.excluded_zones, zones, 1)

\* ------------------------------------------------------- Python floats
\* A float that is not negative is a record: int, its whole part, and
\* frac, the bits after the binary point.  Every operation gives the
\* exact result rounded to Precision significant bits, ties to even, as
\* IEEE 754 binary64 arithmetic does.
RECURSIVE BitLength(_)
BitLength(i) == IF i = 0 THEN 0 ELSE 1 + BitLength(i \div 2)

LeadingZeros(f) ==
    IF \A k \in 1..Len(f) : f[k] = 0 THEN Len(f)
    ELSE Min({ k \in 1..Len(f) : f[k] = 1 }) - 1

\* the number of bits after the point that the float keeps
KeptBits(x) ==
    IF x.int > 0 THEN Precision - BitLength(x.int)
    ELSE LeadingZeros(x.frac) + Precision

\* one unit in the last place more
Increment(x) ==
    LET f == x.frac
        zeros == { k \in 1..Len(f) : f[k] = 0 }
    IN IF zeros = {}
       THEN [ int |-> x.int + 1, frac |-> [ j \in 1..Len(f) |-> 0 ] ]
       ELSE LET k == CHOOSE z \in zeros : \A y \in zeros : y <= z
            IN [ int |-> x.int,
                 frac |-> [ j \in 1..Len(f) |->
                              IF j < k THEN f[j]
                              ELSE IF j = k THEN 1 ELSE 0 ] ]

\* rounding of an exact result to the nearest float, ties to even
Round(x) ==
    LET f == x.frac
        p == KeptBits(x)
    IN IF \A k \in 1..Len(f) : f[k] = 0
       THEN [ int |-> x.int, frac |-> << >> ]
       ELSE IF Len(f) <= p THEN x
       ELSE LET kept == [ int |-> x.int, frac |-> SubSeq(f, 1, p) ]
                sticky == \E k \in (p + 2)..Len(f) : f[k] = 1
                last == IF p > 0 THEN f[p] ELSE x.int % 2
            IN IF f[p + 1] = 1 /\ (sticky \/ last = 1)
               THEN Increment(kept)
               ELSE kept

RECURSIVE Expansion(_, _, _)
\* the first n bits after the point of rem / den, and one more bit that
\* tells whether anything is left after them
Expansion(rem, den, n) ==
    IF n = 0 THEN << IF rem = 0 THEN 0 ELSE 1 >>
    ELSE IF 2 * rem >= den
         THEN << 1 >> \o Expansion(2 * rem - den, den, n - 1)
         ELSE << 0 >> \o Expansion(2 * rem, den, n - 1)

FromInt(n) == [ int |-> n, frac |-> << >> ]

\* n / den for an int n and a whole float den
FloatDiv(n, den) ==
    Round([ int |-> n \div den,
            frac |-> Expansion(n % den, den, ExpansionBits) ])

Bit(f, k) == IF k <= Len(f) THEN f[k] ELSE 0

\* x + y
FloatAdd(x, y) ==
    LET n == IF Len(x.frac) >= Len(y.frac) THEN Len(x.frac) ELSE Len(y.frac)
        carry[k \in 0..n] ==
            IF k = n THEN 0
            ELSE (Bit(x.frac, k + 1) + Bit(y.frac, k + 1) + carry[k + 1])
                     \div 2
    IN Round([ int |-> x.int + y.int + carry[0],
               frac |-> [ k \in 1..n |->
                            (Bit(x.frac, k) + Bit(y.frac, k) + carry[k]) % 2 ] ])

\* x * m for an int m
FloatMul(x, m) ==
    LET n == Len(x.frac)
        carry[k \in 0..n] ==
            IF k = n THEN 0 ELSE (x.frac[k + 1] * m + carry[k + 1]) \div 2
    IN Round([ int |-> x.int * m + carry[0],
               frac |-> [ k \in 1..n |-> (x.frac[k] * m + carry[k]) % 2 ] ])

\* x < y
FloatLess(x, y) ==
    \/ x.int < y.int
    \/ /\ x.int = y.int
       /\ \E k \in 1..Len(y.frac) :
            /\ Bit(x.frac, k) < y.frac[k]
            /\ \A j \in 1..(k - 1) : Bit(x.frac, j) = y.frac[j]

\* DriverHoursConstraint.validate, lines 139-164
ValidateDriverHours(c, total_time_minutes, driving_time_minutes) ==
    LET total_hours == FloatDiv(total_time_minutes, 60)
        driving_hours == FloatDiv(driving_time_minutes, 60)
        min_total_with_break ==
            FloatMul(FloatAdd(driving_hours, c.mandatory_break_hours), 60)
    IN IF FloatLess(c.max_shift_hours, total_hours) THEN FALSE
       ELSE IF /\ FloatLess(c.break_after_hours, driving_hours)
               /\ FloatLess(FromInt(total_time_minutes), min_total_with_break)
            THEN FALSE
            ELSE TRUE

\* ----------------------------------------------------------- optimizer.py
\* mutant: the location is appended whether it is in the list or not
AppendAlways(locs, loc) == Append(locs, loc)

\* lines 111-112, 116-119: a location is appended unless it is in the list
AppendNew(locs, loc) == IF loc \in Range(locs) THEN locs ELSE Append(locs, loc)

RECURSIVE VehicleLocations(_, _, _)
VehicleLocations(vs, k, locs) ==
    IF k > Len(vs) THEN locs
    ELSE VehicleLocations(vs, k + 1, AppendNew(locs, vs[k].start_location))

RECURSIVE OrderLocations(_, _, _)
OrderLocations(os, k, locs) ==
    IF k > Len(os) THEN locs
    ELSE OrderLocations(os, k + 1,
           AppendNew(AppendNew(locs, os[k].pickup_location),
                     os[k].delivery_location))

ExtractLocations(os, vs) ==
    OrderLocations(os, 1, VehicleLocations(vs, 1, << >>))

\* mutant: the weight is not checked
OverCapacityVolumeOnly(o, v, weight, volume) ==
    volume + o.volume_m3 > v.max_volume_m3

\* mutant: an order that fills the vehicle exactly is refused
OverCapacityAtLimit(o, v, weight, volume) ==
    \/ weight + o.weight_kg >= v.max_weight_kg
    \/ volume + o.volume_m3 >= v.max_volume_m3

\* lines 160-166
OverCapacity(o, v, weight, volume) ==
    \/ weight + o.weight_kg > v.max_weight_kg
    \/ volume + o.volume_m3 > v.max_volume_m3

NoBest == [ idx |-> 0, dist |-> 0 ]

\* mutant: best_distance starts at 0 instead of infinity
CloserThanZero(distance, best) == distance < best.dist

\* mutant: <= instead of <, the last of the equally near orders is kept
CloserOrEqual(distance, best) == best.idx = 0 \/ distance <= best.dist

\* line 174, with best_distance = inf while best_order_idx is None
Closer(distance, best) == best.idx = 0 \/ distance < best.dist

RECURSIVE ScanPool(_, _, _, _, _, _)
\* the for loop of lines 156-176 over the pool in iteration order;
\* best.idx = 0 is best_order_idx = None (best_distance = inf)
ScanPool(pool, best, v, weight, volume, loc) ==
    IF pool = << >> THEN best
    ELSE LET order_idx == Head(pool)
             order == orders[order_idx]
             distance == DistanceBetween(loc, order.pickup_location)
         IN IF OverCapacity(order, v, weight, volume)
            THEN ScanPool(Tail(pool), best, v, weight, volume, loc)
            ELSE IF Closer(distance, best)
                 THEN ScanPool(Tail(pool),
                               [ idx |-> order_idx, dist |-> distance ],
                               v, weight, volume, loc)
                 ELSE ScanPool(Tail(pool), best, v, weight, volume, loc)

BestOrderIdx ==
    ScanPool(SetToSeq(unassigned), NoBest, vehicles[vi],
             current_weight, current_volume, current_location).idx

TravelTime(distance) == (distance * 60) \div AverageSpeedKmh

RECURSIVE MetricsLoop(_, _, _, _)
\* the for loop of lines 244-277; acc carries the four totals
MetricsLoop(order_indices, k, loc, acc) ==
    IF k > Len(order_indices) THEN [ acc EXCEPT !.loc = loc ]
    ELSE LET order == orders[order_indices[k]]
             to_pickup == DistanceBetween(loc, order.pickup_location)
             to_delivery == DistanceBetween(order.pickup_location,
                                            order.delivery_location)
         IN MetricsLoop(order_indices, k + 1, order.delivery_location,
              [ loc |-> loc,
                total_distance |-> acc.total_distance + to_pickup + to_delivery,
                total_time |-> acc.total_time + TravelTime(to_pickup)
                                 + PickupServiceMinutes
                                 + TravelTime(to_delivery)
                                 + DeliveryServiceMinutes,
                total_weight |-> acc.total_weight + order.weight_kg,
                total_volume |-> acc.total_volume + order.volume_m3 ])

CalculateRouteMetrics(order_indices, v) ==
    LET vehicle == vehicles[v]
        acc == MetricsLoop(order_indices, 1, vehicle.start_location,
                 [ loc |-> vehicle.start_location, total_distance |-> 0,
                   total_time |-> 0, total_weight |-> 0, total_volume |-> 0 ])
        has_end == vehicle.end_location # << >>
        to_end == IF has_end
                  THEN DistanceBetween(acc.loc, vehicle.end_location[1])
                  ELSE 0
    IN [ vehicle_id |-> v,
         stops |-> order_indices,
         total_distance |-> acc.total_distance + to_end,
         total_time_minutes |-> acc.total_time + TravelTime(to_end),
         weight_used |-> acc.total_weight,
         volume_used |-> acc.total_volume ]


Reverse(s) == [ k \in 1..Len(s) |-> s[Len(s) + 1 - k] ]

RECURSIVE PlaceholderSum(_)
PlaceholderSum(n) == IF n = 0 THEN 0
                     ELSE PlaceholderSum(n - 1) + Haversine(0, n - 1)

RECURSIVE StopToStop(_, _)
\* the distance travelled from the pickup of the stop k of s to the delivery
\* of its last stop, over the locations of the orders
StopToStop(s, k) ==
    IF k > Len(s) THEN 0
    ELSE DistanceBetween(orders[s[k]].pickup_location,
                         orders[s[k]].delivery_location)
         + (IF k < Len(s)
            THEN DistanceBetween(orders[s[k]].delivery_location,
                                 orders[s[k + 1]].pickup_location)
            ELSE 0)
         + StopToStop(s, k + 1)

\* mutant: the distance of the sequence over the locations of its orders
CalculateRouteDistanceOfOrders(s) ==
    IF s = << >> THEN 0 ELSE StopToStop(s, 1)

\* _calculate_route_distance: the sum over i < len(stops) of the distance
\* from (0.0, 0.0) to (0.0, i * 0.001), here in units of the distance of
\* the first such step (values of this function are only compared with
\* each other)
CalculateRouteDistance(s) ==
    IF s = << >> THEN 0 ELSE PlaceholderSum(Len(s)) \div 2

\* stops[:i + 1] + stops[i + 1 : j + 1][::-1] + stops[j + 1 :], 0-based i, j
ReverseSegment(s, i, j) ==
    SubSeq(s, 1, i + 1) \o Reverse(SubSeq(s, i + 2, j + 1))
        \o SubSeq(s, j + 2, Len(s))

RECURSIVE ScanReversalsOrEqual(_, _, _)
\* mutant: a reversal that is not longer is taken
ScanReversalsOrEqual(s, i, j) ==
    IF i >= Len(s) - 1 THEN [ stops |-> s, improved |-> FALSE ]
    ELSE IF j >= Len(s) THEN ScanReversalsOrEqual(s, i + 1, i + 3)
    ELSE LET new_stops == ReverseSegment(s, i, j)
         IN IF CalculateRouteDistance(new_stops) <= CalculateRouteDistance(s)
            THEN [ stops |-> new_stops, improved |-> TRUE ]
            ELSE ScanReversalsOrEqual(s, i, j + 1)

RECURSIVE ScanReversals(_, _, _)
\* the two for loops of lines 319-334, 0-based i and j: the first
\* reversal that shortens the route, if there is one
ScanReversals(s, i, j) ==
    IF i >= Len(s) - 1 THEN [ stops |-> s, improved |-> FALSE ]
    ELSE IF j >= Len(s) THEN ScanReversals(s, i + 1, i + 3)
    ELSE LET new_stops == ReverseSegment(s, i, j)
         IN IF CalculateRouteDistance(new_stops) < CalculateRouteDistance(s)
            THEN [ stops |-> new_stops, improved |-> TRUE ]
            ELSE ScanReversals(s, i, j + 1)

\* ------------------------------------------------------------------ inputs
\* Fleets and order books that stress capacity: everything at the depot 0,
\* every vehicle with the same volume capacity.
CapacityOrder ==
    [ pickup_location : { 0 }, delivery_location : { 0 },
      weight_kg : 1..MaxWeight, volume_m3 : 1..MaxVolume ]

CapacityVehicle ==
    [ max_weight_kg : 1..MaxWeightCap, max_volume_m3 : { VolumeCap },
      start_location : { 0 }, end_location : { << >> } ]

\* Fleets and order books that stress geography: the capacity of a vehicle
\* is the same in both dimensions, every order takes one unit of volume.
GeoOrder ==
    [ pickup_location : Coords, delivery_location : Coords,
      weight_kg : 1..GeoMaxWeight, volume_m3 : { 1 } ]

GeoVehicle ==
    { v \in [ max_weight_kg : 1..GeoMaxWeight, max_volume_m3 : 1..GeoMaxWeight,
              start_location : Coords,
              end_location : { << >> } \cup { << c >> : c \in Coords } ] :
        /\ v.max_volume_m3 = v.max_weight_kg
        /\ v.end_location \in { << >>, << v.start_location >> } }

\* Tours: one vehicle that can carry every order, going anywhere afterwards.
TourOrder ==
    [ pickup_location : Coords, delivery_location : Coords,
      weight_kg : { 1 }, volume_m3 : { 1 } ]

TourVehicle ==
    [ max_weight_kg : { TourMaxOrders }, max_volume_m3 : { TourMaxOrders },
      start_location : Coords,
      end_location : { << >> } \cup { << c >> : c \in 0..(MaxCoord + 1) } ]

CapacityInputs ==
    { << os, vs >> : os \in SeqsUpTo(CapacityOrder, MaxOrders),
                     vs \in SeqsUpTo(CapacityVehicle, MaxVehicles) }

GeoInputs ==
    { << os, vs >> : os \in SeqsUpTo(GeoOrder, GeoMaxOrders),
                     vs \in SeqsUpTo(GeoVehicle, GeoMaxVehicles) }

TourInputs ==
    { << os, vs >> : os \in SeqsUpTo(TourOrder, TourMaxOrders),
                     vs \in [ 1..1 -> TourVehicle ] }

Inputs == CapacityInputs \cup GeoInputs \cup TourInputs

\* the inputs of the calls that are repeated: the tours and the small cases
\* of the other two families
RepeatInputs ==
    TourInputs \cup
    { in \in CapacityInputs \cup GeoInputs :
        Len(in[1]) + Len(in[2]) <= RepeatMaxSize }

\* ------------------------------------------------------------------- state
NoCall == [ improve_with_2opt |-> FALSE, result |-> << >> ]

\* a fresh optimizer about to be called with the inputs in
InitOptimizer(in) ==
    /\ orders = in[1]
    /\ vehicles = in[2]
    /\ calls = 1
    /\ previous = NoCall
    /\ improve_with_2opt \in BOOLEAN
    /\ use_cache \in BOOLEAN
    /\ cache = << >>
    /\ pc = "call"
    /\ locations = << >>
    /\ distance_matrix = << >>
    /\ routes = << >>
    /\ unassigned = {}
    /\ vi = 0
    /\ route_orders = << >>
    /\ current_weight = 0
    /\ current_volume = 0
    /\ current_location = 0
    /\ leftover = << >>
    /\ ri = 0
    /\ stops = << >>
    /\ improved = FALSE
    /\ result = << >>
    /\ hit = FALSE
    /\ since_clear = {}

\* no /optimize request handled yet
NoResponse == [ routes |-> << >>, unassigned_orders |-> << >> ]

\* a SimulationEngine as constructed (engine.py lines 64-66,
\* SimulationState.current_time line 42)
NewEngine ==
    /\ event_queue = << >>
    /\ callbacks = << >>
    /\ current_time = 0
    /\ end_time = 0
    /\ received = << >>
    /\ pending = {}
    /\ follow_ups = {}

\* no call of _emit_event yet
NoEmission == [ event_type |-> "", data |-> << >>, called |-> << >>,
                raised |-> << >>, propagated |-> FALSE ]

\* no call of calculate_eta in the last operation
NoEta == [ vehicle_id |-> 0, minutes |-> << >> ]

\* a VehicleTracker as constructed (tracker.py lines 39-43)
NewTracker ==
    /\ positions = << >>
    /\ tracker_routes = << >>
    /\ tracker_callbacks = << >>
    /\ emitted = NoEmission
    /\ eta = NoEta

\* no request to a store answered yet
NoStoreResponse == [ endpoint |-> "", id |-> 0, status_code |-> 0 ]

\* the stores of create_app as it makes them (api.py lines 33-35)
NewStores ==
    /\ orders_db = << >>
    /\ vehicles_db = << >>
    /\ routes_db = << >>
    /\ store_response = NoStoreResponse

\* the order API idle, a new SimulationEngine and a new VehicleTracker
NoServices ==
    /\ request_ids = << >>
    /\ response = NoResponse
    /\ NewStores
    /\ NewEngine
    /\ NewTracker

\* no VehicleCapacityConstraint is made by the optimizer
InitWith(in) ==
    /\ InitOptimizer(in)
    /\ constraint = [ max_weight_kg |-> 0, max_volume_m3 |-> 0 ]
    /\ route_loads = << >>
    /\ valid = FALSE
    /\ args = << >>
    /\ constraints = << >>
    /\ NoServices

Init == \E in \in Inputs : InitWith(in)

InitRepeat == \E in \in RepeatInputs : InitWith(in)

caller == << calls, previous >>
matrix_client == << hit, since_clear >>
capacity_check == << constraint, route_loads, valid >>
checker == << args, constraints >>
api == << request_ids, response >>
simulation == << event_queue, callbacks, current_time, end_time, received,
                pending, follow_ups >>
tracker == << positions, tracker_routes, tracker_callbacks, emitted, eta >>
stores == << orders_db, vehicles_db, routes_db >>
store == << stores, store_response >>
services == << api, simulation, tracker, store >>
inputs == << orders, vehicles, improve_with_2opt, use_cache, caller,
            matrix_client, capacity_check, checker, services >>
greedy_locals == << route_orders, current_weight, current_volume,
                    current_location >>
twoopt_locals == << ri, stops, improved >>

\* entering the body of the vehicle loop at vehicle k with the pool un
\* (lines 142-149), or leaving the loop for the salvage pass (line 195)
EnterVehicle(k, un) ==
    IF k <= Len(vehicles) /\ un # {}
    THEN /\ pc' = "greedy"
         /\ vi' = k
         /\ route_orders' = << >>
         /\ current_weight' = 0
         /\ current_volume' = 0
         /\ current_location' = vehicles[k].start_location
         /\ leftover' = << >>
    ELSE /\ pc' = "salvage"
         /\ vi' = 0
         /\ route_orders' = << >>
         /\ current_weight' = 0
         /\ current_volume' = 0
         /\ current_location' = 0
         /\ leftover' = SetToSeq(un)

\* mutant: no early return
NoOrdersNever(os) == FALSE

\* the test of line 75
NoOrders(os) == os = << >>

\* optimize, lines 75-76
OptimizeEmpty ==
    /\ pc = "call"
    /\ NoOrders(orders)
    /\ result' = << >>
    /\ pc' = "done"
    /\ UNCHANGED << inputs, cache, locations, distance_matrix, routes,
                    unassigned, vi, greedy_locals, leftover, twoopt_locals >>

\* mutant: routes is kept from one call to the next
BeginOptimizeKeepRoutes ==
    /\ pc = "call"
    /\ ~NoOrders(orders)
    /\ LET locs == ExtractLocations(orders, vehicles)
       IN /\ locations' = locs
          /\ distance_matrix' = ComputeDistanceMatrix(locs)
          /\ cache' = CacheAfter(locs)
    /\ routes' = routes
    /\ unassigned' = 1..Len(orders)
    /\ EnterVehicle(1, 1..Len(orders))
    /\ UNCHANGED << inputs, twoopt_locals, result >>

\* optimize, lines 78-87, up to the first vehicle of the greedy loop
BeginOptimize ==
    /\ pc = "call"
    /\ ~NoOrders(orders)
    /\ LET locs == ExtractLocations(orders, vehicles)
       IN /\ locations' = locs
          /\ distance_matrix' = ComputeDistanceMatrix(locs)
          /\ cache' = CacheAfter(locs)
    /\ routes' = << >>
    /\ unassigned' = 1..Len(orders)
    /\ EnterVehicle(1, 1..Len(orders))
    /\ UNCHANGED << inputs, twoopt_locals, result >>

\* mutant: the order stays in the pool
PoolAfterPickKeep(pool, order_idx) == pool

\* line 186
PoolAfterPick(pool, order_idx) == pool \ { order_idx }

\* one iteration of the while loop of lines 152-186 that appends an order
PickNearest ==
    /\ pc = "greedy"
    /\ unassigned # {}
    /\ BestOrderIdx # 0
    /\ LET best_order_idx == BestOrderIdx
           order == orders[best_order_idx]
       IN /\ route_orders' = Append(route_orders, best_order_idx)
          /\ current_weight' = current_weight + order.weight_kg
          /\ current_volume' = current_volume + order.volume_m3
          /\ current_location' = order.delivery_location
          /\ unassigned' = PoolAfterPick(unassigned, best_order_idx)
    /\ UNCHANGED << inputs, cache, pc, locations, distance_matrix, routes,
                    vi, leftover, twoopt_locals, result >>

\* mutant: a route is appended for a vehicle without stops too
RoutesAfterVehicleAlways(rs, order_indices, v) ==
    Append(rs, CalculateRouteMetrics(order_indices, v))

\* lines 188-192
RoutesAfterVehicle(rs, order_indices, v) ==
    IF order_indices # << >>
    THEN Append(rs, CalculateRouteMetrics(order_indices, v))
    ELSE rs

\* the end of the while loop (pool empty or nothing fits), lines 188-192,
\* and the step to the next vehicle
FinishVehicle ==
    /\ pc = "greedy"
    /\ unassigned = {} \/ BestOrderIdx = 0
    /\ routes' = RoutesAfterVehicle(routes, route_orders, vi)
    /\ EnterVehicle(vi + 1, unassigned)
    /\ UNCHANGED << inputs, cache, locations, distance_matrix, unassigned,
                    twoopt_locals, result >>

\* mutant: the first route is taken whatever its load
FirstFitAnyLoad(rs, order, i) == IF rs = << >> THEN 0 ELSE 1

RECURSIVE FirstFit(_, _, _)
\* the for loop of lines 200-211 from position i (1-based) on: the position
\* of the route the order is attached to, 0 if there is none
FirstFit(rs, order, i) ==
    IF i > Len(vehicles) THEN 0
    ELSE IF /\ i <= Len(rs)
            /\ rs[i].weight_used + order.weight_kg <= vehicles[i].max_weight_kg
            /\ rs[i].volume_used + order.volume_m3 <= vehicles[i].max_volume_m3
         THEN i
         ELSE FirstFit(rs, order, i + 1)

\* mutant: the load totals are not updated
AttachStopOnly(rs, order_idx, i) ==
    [ rs EXCEPT ![i].stops = Append(@, order_idx) ]

\* mutant: distance and time are computed again for the longer route
AttachRecompute(rs, order_idx, i) ==
    LET metrics == CalculateRouteMetrics(Append(rs[i].stops, order_idx),
                                         rs[i].vehicle_id)
    IN [ rs EXCEPT ![i] = metrics ]

\* lines 207-209
Attach(rs, order_idx, i) ==
    [ rs EXCEPT ![i].stops = Append(@, order_idx),
                ![i].weight_used = @ + orders[order_idx].weight_kg,
                ![i].volume_used = @ + orders[order_idx].volume_m3 ]

\* one iteration of the for loop of lines 195-211
SalvageOrder ==
    /\ pc = "salvage"
    /\ leftover # << >>
    /\ LET order_idx == Head(leftover)
           i == FirstFit(routes, orders[order_idx], 1)
       IN routes' = IF i = 0 THEN routes ELSE Attach(routes, order_idx, i)
    /\ leftover' = Tail(leftover)
    /\ UNCHANGED << inputs, cache, pc, locations, distance_matrix,
                    unassigned, vi, greedy_locals, twoopt_locals, result >>

\* line 216 and optimize, lines 89-93, when 2-opt is not requested
ReturnInitial ==
    /\ pc = "salvage"
    /\ leftover = << >>
    /\ ~improve_with_2opt
    /\ result' = routes
    /\ pc' = "done"
    /\ UNCHANGED << inputs, cache, locations, distance_matrix, routes,
                    unassigned, vi, greedy_locals, leftover, twoopt_locals >>

\* line 216, optimize line 91 and _improve_with_2opt, lines 309-313
BeginTwoOpt ==
    /\ pc = "salvage"
    /\ leftover = << >>
    /\ improve_with_2opt
    /\ pc' = "twoopt"
    /\ ri' = 1
    /\ stops' = << >>
    /\ improved' = TRUE
    /\ UNCHANGED << inputs, cache, locations, distance_matrix, routes,
                    unassigned, vi, greedy_locals, leftover, result >>

\* mutant: stops is read from the first route
TwoOptScanFirstRoute ==
    /\ pc = "twoopt"
    /\ ri <= Len(routes)
    /\ improved
    /\ LET scan == ScanReversals(routes[1].stops, 0, 2)
       IN /\ stops' = scan.stops
          /\ improved' = scan.improved
    /\ UNCHANGED << inputs, cache, pc, locations, distance_matrix, routes,
                    unassigned, vi, greedy_locals, leftover, ri, result >>

\* one iteration of the while loop of lines 315-334: stops is read again
\* from the route, then replaced by the first improving reversal
TwoOptScan ==
    /\ pc = "twoopt"
    /\ ri <= Len(routes)
    /\ improved
    /\ LET scan == ScanReversals(routes[ri].stops, 0, 2)
       IN /\ stops' = scan.stops
          /\ improved' = scan.improved
    /\ UNCHANGED << inputs, cache, pc, locations, distance_matrix, routes,
                    unassigned, vi, greedy_locals, leftover, ri, result >>

\* mutant: total_distance is set again, from _calculate_route_distance
TwoOptStoreRecompute ==
    /\ pc = "twoopt"
    /\ ri <= Len(routes)
    /\ ~improved
    /\ routes' = [ routes EXCEPT
                     ![ri].stops = stops,
                     ![ri].total_distance = CalculateRouteDistance(stops) ]
    /\ ri' = ri + 1
    /\ stops' = << >>
    /\ improved' = TRUE
    /\ UNCHANGED << inputs, cache, pc, locations, distance_matrix,
                    unassigned, vi, greedy_locals, leftover, result >>

\* lines 336-337 and the step to the next route (lines 311-313)
TwoOptStore ==
    /\ pc = "twoopt"
    /\ ri <= Len(routes)
    /\ ~improved
    /\ routes' = [ routes EXCEPT ![ri].stops = stops ]
    /\ ri' = ri + 1
    /\ stops' = << >>
    /\ improved' = TRUE
    /\ UNCHANGED << inputs, cache, pc, locations, distance_matrix,
                    unassigned, vi, greedy_locals, leftover, result >>

\* line 339 and optimize, line 93
ReturnImproved ==
    /\ pc = "twoopt"
    /\ ri > Len(routes)
    /\ result' = routes
    /\ pc' = "done"
    /\ UNCHANGED << inputs, cache, locations, distance_matrix, routes,
                    unassigned, vi, greedy_locals, leftover, twoopt_locals >>

\* the caller keeps the routes it got and calls optimize again with the
\* same orders and vehicles on the same optimizer
CallAgain ==
    /\ pc = "done"
    /\ calls < MaxCalls
    /\ calls' = calls + 1
    /\ previous' = [ improve_with_2opt |-> improve_with_2opt,
                     result |-> result ]
    /\ improve_with_2opt' \in BOOLEAN
    /\ pc' = "call"
    /\ UNCHANGED << orders, vehicles, use_cache, cache, locations,
                    distance_matrix, routes, unassigned, vi, greedy_locals,
                    leftover, twoopt_locals, result, matrix_client,
                    capacity_check, checker, services >>

\* the same on a fresh optimizer (RouteOptimizer.__init__, lines 55-57)
CallAgainFresh ==
    /\ pc = "done"
    /\ calls < MaxCalls
    /\ calls' = calls + 1
    /\ previous' = [ improve_with_2opt |-> improve_with_2opt,
                     result |-> result ]
    /\ improve_with_2opt' \in BOOLEAN
    /\ cache' = << >>
    /\ pc' = "call"
    /\ UNCHANGED << orders, vehicles, use_cache, locations,
                    distance_matrix, routes, unassigned, vi, greedy_locals,
                    leftover, twoopt_locals, result, matrix_client,
                    capacity_check, checker, services >>

Next ==
    \/ OptimizeEmpty
    \/ BeginOptimize
    \/ PickNearest
    \/ FinishVehicle
    \/ SalvageOrder
    \/ ReturnInitial
    \/ BeginTwoOpt
    \/ TwoOptScan
    \/ TwoOptStore
    \/ ReturnImproved

Spec == Init /\ [][Next]_vars

\* the steps of _improve_with_2opt and of the return after it
TwoOptNext == TwoOptScan \/ TwoOptStore \/ ReturnImproved

\* the interpreter goes on running _improve_with_2opt while it has a step
FairSpec == Spec /\ WF_vars(TwoOptNext)

\* ---------------------------------------- DistanceMatrix called on its own
LocationLists == SeqsUpTo(Coords, MaxLocations)

\* a DistanceMatrix as constructed (distance.py, lines 12-19)
InitMatrix ==
    /\ InitWith(<< << >>, << >> >>)
    /\ ~improve_with_2opt
    /\ pc = "call"

\* compute_distance_matrix(locs), lines 51-80; calls is one more than the
\* number of calls made
ComputeCall(locs) ==
    /\ calls <= MaxMatrixCalls
    /\ calls' = calls + 1
    /\ locations' = locs
    /\ hit' = CacheHit(locs)
    /\ distance_matrix' = ComputeDistanceMatrix(locs)
    /\ cache' = CacheAfter(locs)
    /\ since_clear' = since_clear \cup { locs }
    /\ UNCHANGED << orders, vehicles, improve_with_2opt, use_cache, pc,
                    routes, unassigned, vi, greedy_locals, leftover,
                    twoopt_locals, result, previous, capacity_check,
                    checker, services >>

\* clear_cache, lines 124-126
ClearCache ==
    /\ cache' = << >>
    /\ since_clear' = {}
    /\ UNCHANGED << orders, vehicles, improve_with_2opt, use_cache, pc,
                    locations, distance_matrix, routes, unassigned, vi,
                    greedy_locals, leftover, twoopt_locals, result, caller,
                    hit, capacity_check, checker, services >>

NextMatrix == (\E locs \in LocationLists : ComputeCall(locs)) \/ ClearCache

SpecMatrix == InitMatrix /\ [][NextMatrix]_vars

\* ------------------------------- VehicleCapacityConstraint called on its own
\* a load is a weight and a volume; validate takes negative numbers too
Loads == ((0 - MaxUnload)..MaxLoad) \X ((0 - MaxUnload)..MaxLoad)

\* a constraint as constructed (constraints.py, lines 44-52) and a list of
\* loads to validate
InitValidate ==
    /\ InitOptimizer(<< << >>, << >> >>)
    /\ ~improve_with_2opt
    /\ ~use_cache
    /\ constraint \in [ max_weight_kg : 0..MaxLimit,
                        max_volume_m3 : 0..MaxLimit ]
    /\ route_loads \in SeqsUpTo(Loads, MaxLoads)
    /\ valid = FALSE
    /\ args = << >>
    /\ constraints = << >>
    /\ NoServices

\* constraint.validate(route_loads)
CallValidate ==
    /\ pc = "call"
    /\ valid' = Validate(constraint, route_loads)
    /\ pc' = "done"
    /\ UNCHANGED << orders, vehicles, improve_with_2opt, use_cache, cache,
                    locations, distance_matrix, routes, unassigned, vi,
                    greedy_locals, leftover, twoopt_locals, result, caller,
                    matrix_client, constraint, route_loads, checker,
                    services >>

NextValidate == CallValidate

SpecValidate == InitValidate /\ [][NextValidate]_vars

\* ------------------------------------ TimeWindowConstraint called on its own
\* the time of day of a datetime
ClockTimes == [ hour : 0..MaxHour, minute : { 0, 30 } ]

TimeWindows == [ earliest : ClockTimes, latest : ClockTimes ]

\* minutes from the start of the route, around the window bounds
ArrivalTimes == { 0, 29, 30, 31, 60, 90, 91 }

\* the route starts at midnight, half an hour after it or half an hour
\* before the next
StartTimes == { 0, 30, MinutesPerDay - 30 }

\* an idle optimizer, no capacity check going on
Idle ==
    /\ InitOptimizer(<< << >>, << >> >>)
    /\ ~improve_with_2opt
    /\ ~use_cache
    /\ route_loads = << >>
    /\ valid = FALSE
    /\ NoServices

\* a TimeWindowConstraint as constructed (lines 80-87) and the arguments of
\* a call of validate
InitWindows ==
    /\ Idle
    /\ constraint = [ service_time_minutes |-> 30 ]
    /\ args \in [ time_windows : SeqsUpTo(TimeWindows, MaxWindows),
                   arrival_times : SeqsUpTo(ArrivalTimes, MaxWindows),
                   start_time : StartTimes ]
    /\ constraints = << >>

\* constraint.validate(time_windows, arrival_times, start_time)
CallValidateWindows ==
    /\ pc = "call"
    /\ valid' = ValidateWindows(args.time_windows, args.arrival_times,
                                args.start_time)
    /\ pc' = "done"
    /\ UNCHANGED << orders, vehicles, improve_with_2opt, use_cache, cache,
                    locations, distance_matrix, routes, unassigned, vi,
                    greedy_locals, leftover, twoopt_locals, result, caller,
                    matrix_client, constraint, route_loads, checker,
                    services >>

NextWindows == CallValidateWindows

SpecWindows == InitWindows /\ [][NextWindows]_vars

\* ------------------- ZoneRestrictionConstraint and ConstraintChecker.check_zones
\* zone identifiers (strings in the code, compared for equality only)
ZoneIds == 1..MaxZoneIds

\* a ConstraintChecker as constructed (lines 196-198), a set of excluded
\* zones, the ZoneRestrictionConstraint made from it (lines 170-176) and a
\* list of zones
InitZones ==
    /\ Idle
    /\ args \in [ zones : SeqsUpTo(ZoneIds, MaxZones),
                   excluded_zones : SUBSET ZoneIds ]
    /\ constraint = [ excluded_zones |-> args.excluded_zones ]
    /\ constraints = << >>

\* checker.add_constraint(constraint), lines 200-206
AddConstraint ==
    /\ pc = "call"
    /\ Len(constraints) < MaxConstraints
    /\ constraints' = Append(constraints, constraint)
    /\ UNCHANGED << orders, vehicles, improve_with_2opt, use_cache, cache, pc,
                    locations, distance_matrix, routes, unassigned, vi,
                    greedy_locals, leftover, twoopt_locals, result, caller,
                    matrix_client, capacity_check, args, services >>

\* constraint.validate(zones)
CallValidateZones ==
    /\ pc = "call"
    /\ valid' = ValidateZones(constraint, args.zones)
    /\ pc' = "done"
    /\ UNCHANGED << orders, vehicles, improve_with_2opt, use_cache, cache,
                    locations, distance_matrix, routes, unassigned, vi,
                    greedy_locals, leftover, twoopt_locals, result, caller,
                    matrix_client, constraint, route_loads, checker,
                    services >>

\* checker.check_zones(zones, excluded_zones), lines 258-269: the constraint
\* it makes is a local
CallCheckZones ==
    /\ pc = "call"
    /\ LET local == [ excluded_zones |-> args.excluded_zones ]
       IN valid' = ValidateZones(local, args.zones)
    /\ pc' = "checked"
    /\ UNCHANGED << orders, vehicles, improve_with_2opt, use_cache, cache,
                    locations, distance_matrix, routes, unassigned, vi,
                    greedy_locals, leftover, twoopt_locals, result, caller,
                    matrix_client, constraint, route_loads, checker,
                    services >>

NextZones == AddConstraint \/ CallValidateZones \/ CallCheckZones

SpecZones == InitZones /\ [][NextZones]_vars

\* ----------------------------------- DriverHoursConstraint called on its own
\* half an hour, the default of mandatory_break_hours (line 125)
HalfHour == [ int |-> 0, frac |-> << 1 >> ]

\* total minutes of a route with driving_time_minutes of driving: the
\* driving and from no time to an hour and a half more, or a shift at its
\* maximum, a minute less or a minute more
TotalsFor(driving_time_minutes) ==
    { driving_time_minutes + m : m \in { 0, 29, 30, 31, 90 } }
      \cup { 60 * MaxShiftHours + m : m \in { -1, 0, 1 } }

\* a DriverHoursConstraint as constructed with its defaults (lines
\* 122-137) and the arguments of a call of validate
InitDriverHours ==
    /\ Idle
    /\ constraint = [ max_shift_hours |-> FromInt(MaxShiftHours),
                      mandatory_break_hours |-> HalfHour,
                      break_after_hours |-> FromInt(BreakAfterHours) ]
    /\ \E d \in 0..MaxDrivingMinutes : \E t \in TotalsFor(d) :
         args = [ total_time_minutes |-> t, driving_time_minutes |-> d ]
    /\ constraints = << >>

\* constraint.validate(total_time_minutes, driving_time_minutes)
CallValidateDriverHours ==
    /\ pc = "call"
    /\ valid' = ValidateDriverHours(constraint, args.total_time_minutes,
                                    args.driving_time_minutes)
    /\ pc' = "done"
    /\ UNCHANGED << orders, vehicles, improve_with_2opt, use_cache, cache,
                    locations, distance_matrix, routes, unassigned, vi,
                    greedy_locals, leftover, twoopt_locals, result, caller,
                    matrix_client, constraint, route_loads, checker,
                    services >>

NextDriverHours == CallValidateDriverHours

SpecDriverHours == InitDriverHours /\ [][NextDriverHours]_vars

NextRepeat == Next \/ CallAgain \/ CallAgainFresh

SpecRepeat == InitRepeat /\ [][NextRepeat]_vars

\* ------------------------------------------------------------ properties
Returned == pc = "done"

RECURSIVE SumWeight(_, _)
SumWeight(s, k) == IF k = 0 THEN 0
                   ELSE SumWeight(s, k - 1) + orders[s[k]].weight_kg

RECURSIVE SumVolume(_, _)
SumVolume(s, k) == IF k = 0 THEN 0
                   ELSE SumVolume(s, k - 1) + orders[s[k]].volume_m3

RouteIdx == 1..Len(result)

Routed == UNION { Range(result[i].stops) : i \in RouteIdx }

\* a route that was given a stop after its metrics were computed: its time
\* holds fewer service stops than it has stops
Salvaged(r) ==
    r.total_time_minutes
        < (PickupServiceMinutes + DeliveryServiceMinutes) * Len(r.stops)

\* C1: in every returned route, every prefix of the stops stays within the
\* weight and the volume capacity of the vehicle named by the route.
C1_PrefixesWithinCapacity ==
    Returned =>
        \A i \in RouteIdx : \A k \in 1..Len(result[i].stops) :
            /\ SumWeight(result[i].stops, k)
                 <= vehicles[result[i].vehicle_id].max_weight_kg
            /\ SumVolume(result[i].stops, k)
                 <= vehicles[result[i].vehicle_id].max_volume_m3

\* C2: every stop of the result is a valid order index and no order index
\* occurs twice, within one route or across routes.
C2_StopsValidAndDisjoint ==
    Returned =>
        /\ \A i \in RouteIdx : Range(result[i].stops) \subseteq 1..Len(orders)
        /\ \A i, j \in RouteIdx :
             \A k \in 1..Len(result[i].stops), l \in 1..Len(result[j].stops) :
                result[i].stops[k] = result[j].stops[l] => i = j /\ k = l

\* a result of two routes or more, one of which took an order in the
\* salvage pass
C2_Witness ==
    /\ Returned
    /\ Len(result) >= 2
    /\ \E i \in RouteIdx : Salvaged(result[i]) /\ Len(result[i].stops) >= 2

\* C3: weight_used and volume_used of every returned route are the sums
\* over the orders of its stops.
C3_LoadIsSumOfStops ==
    Returned =>
        \A i \in RouteIdx :
            /\ result[i].weight_used
                 = SumWeight(result[i].stops, Len(result[i].stops))
            /\ result[i].volume_used
                 = SumVolume(result[i].stops, Len(result[i].stops))

\* a returned route that took an order in the salvage pass and went
\* through 2-opt
C3_Witness ==
    /\ Returned
    /\ improve_with_2opt
    /\ \E i \in RouteIdx : Salvaged(result[i]) /\ result[i].weight_used >= 3

\* C4: the result holds no route without stops, its routes belong to
\* different vehicles and come in vehicle input order (so there are at most
\* as many routes as vehicles), and a vehicle has a route exactly when it
\* was given an order.
C4_OneRoutePerUsedVehicle ==
    Returned =>
        /\ \A i \in RouteIdx :
             /\ result[i].stops # << >>
             /\ result[i].vehicle_id \in 1..Len(vehicles)
        /\ \A i, j \in RouteIdx :
             i < j => result[i].vehicle_id < result[j].vehicle_id
        /\ Len(result) <= Len(vehicles)

\* a result that skips a vehicle: the first vehicle got nothing, a later
\* one has a route
C4_Witness ==
    /\ Returned
    /\ Len(vehicles) >= 3
    /\ Len(result) = 2
    /\ result[1].vehicle_id = 2

\* C5: with no orders, optimize returns no route, builds neither the
\* location list nor the matrix and leaves the cache as it was.
C5_EmptyOrdersNoOp ==
    (Returned /\ orders = << >>) =>
        /\ result = << >>
        /\ locations = << >>
        /\ distance_matrix = << >>
        /\ DOMAIN cache = {}

\* a call without orders and with vehicles, on a caching optimizer, with
\* 2-opt requested
C5_Witness ==
    /\ Returned
    /\ orders = << >>
    /\ vehicles # << >>
    /\ use_cache
    /\ improve_with_2opt

FitsEmpty(o, v) ==
    o.weight_kg <= v.max_weight_kg /\ o.volume_m3 <= v.max_volume_m3

Hopeless(k) ==
    \A v \in 1..Len(vehicles) : ~FitsEmpty(orders[k], vehicles[v])

\* C6: an order that fits no vehicle, even an empty one, is in no returned
\* route, and the call is never stuck on its way through the greedy loop,
\* the salvage pass and 2-opt.
C6_HopelessOrderDropped ==
    /\ Returned => \A k \in 1..Len(orders) : Hopeless(k) => k \notin Routed
    /\ (pc \in { "greedy", "salvage", "twoopt" }
          /\ \E k \in 1..Len(orders) : Hopeless(k)) => ENABLED Next

\* a call with vehicles that returned with an order no vehicle can take
\* left out and another order routed
C6_Witness ==
    /\ Returned
    /\ vehicles # << >>
    /\ \E k \in 1..Len(orders) : Hopeless(k)
    /\ Routed # {}

FitsFirstVehicle ==
    /\ vehicles # << >>
    /\ SumWeight([ k \in 1..Len(orders) |-> k ], Len(orders))
         <= vehicles[1].max_weight_kg
    /\ SumVolume([ k \in 1..Len(orders) |-> k ], Len(orders))
         <= vehicles[1].max_volume_m3

OneRouteWithAllOrders ==
    /\ Len(result) = 1
    /\ result[1].vehicle_id = 1
    /\ Len(result[1].stops) = Len(orders)
    /\ Range(result[1].stops) = 1..Len(orders)

\* C7 as stated: whenever all the orders together fit the first vehicle,
\* the result is one route of the first vehicle with every order once.
C7_AllOnFirstVehicle_Original ==
    (Returned /\ FitsFirstVehicle) => OneRouteWithAllOrders

\* C7 amended: the same for a list of at least one order.
C7_AllOnFirstVehicle ==
    (Returned /\ FitsFirstVehicle /\ orders # << >>) => OneRouteWithAllOrders

\* two orders or more that went together on the first of several vehicles
C7_Witness ==
    /\ Returned
    /\ FitsFirstVehicle
    /\ Len(orders) >= 2
    /\ Len(vehicles) >= 2
    /\ OneRouteWithAllOrders

FinalWeight(v) ==
    IF \E i \in RouteIdx : result[i].vehicle_id = v
    THEN (CHOOSE r \in Range(result) : r.vehicle_id = v).weight_used
    ELSE 0

FinalVolume(v) ==
    IF \E i \in RouteIdx : result[i].vehicle_id = v
    THEN (CHOOSE r \in Range(result) : r.vehicle_id = v).volume_used
    ELSE 0

\* C8: on return, an order that is in no route fits no vehicle on top of
\* the vehicle's final load.
C8_NoOrderLeftWhileRoom ==
    Returned =>
        \A k \in (1..Len(orders)) \ Routed : \A v \in 1..Len(vehicles) :
            \/ FinalWeight(v) + orders[k].weight_kg > vehicles[v].max_weight_kg
            \/ FinalVolume(v) + orders[k].volume_m3 > vehicles[v].max_volume_m3

\* an order left out that an empty vehicle could take, next to a vehicle
\* without a route and a vehicle with one
C8_Witness ==
    /\ Returned
    /\ \E k \in (1..Len(orders)) \ Routed : ~Hopeless(k)
    /\ \E v \in 1..Len(vehicles) : FinalWeight(v) = 0
    /\ \E v \in 1..Len(vehicles) : FinalWeight(v) > 0

PickupDistance(k) == DistanceBetween(current_location, orders[k].pickup_location)

Fitting ==
    { k \in unassigned :
        ~OverCapacity(orders[k], vehicles[vi], current_weight, current_volume) }

\* C9: a step of the greedy loop that appends an order appends a fitting
\* unassigned order nearest to the current location, the first of the pool
\* among the equally near ones, takes it out of the shared pool and moves
\* to its delivery location; the vehicles come in input order, each from
\* its start location with the pool its predecessors left.
C9_GreedyNearestFitting ==
    [][ /\ (pc = "greedy" /\ Len(route_orders') = Len(route_orders) + 1) =>
            LET b == route_orders'[Len(route_orders')]
            IN /\ b \in Fitting
               /\ \A k \in Fitting :
                     /\ PickupDistance(b) <= PickupDistance(k)
                     /\ PickupDistance(b) = PickupDistance(k) => b <= k
               /\ SubSeq(route_orders', 1, Len(route_orders)) = route_orders
               /\ unassigned' = unassigned \ { b }
               /\ current_location' = orders[b].delivery_location
               /\ current_weight' = current_weight + orders[b].weight_kg
               /\ current_volume' = current_volume + orders[b].volume_m3
               /\ vi' = vi
        /\ (pc' = "greedy" /\ vi' # vi) =>
               /\ vi' = vi + 1
               /\ current_location' = vehicles[vi'].start_location
               /\ route_orders' = << >>
               /\ pc = "greedy" => unassigned' = unassigned
      ]_vars

\* the second vehicle has taken an order that is not the first of the pool:
\* the first of the pool fits too but is farther away
C9_Witness ==
    /\ pc = "greedy"
    /\ vi = 2
    /\ Len(route_orders) = 1
    /\ \E k \in unassigned :
         /\ k < route_orders[1]
         /\ FitsEmpty(orders[k], vehicles[vi])
         /\ DistanceBetween(vehicles[vi].start_location,
                            orders[k].pickup_location)
              > DistanceBetween(vehicles[vi].start_location,
                                orders[route_orders[1]].pickup_location)

\* C10: a step of the salvage pass that attaches an order to a route finds
\* room for it in the vehicle that owns the route, and that route is the
\* first, in vehicle order, whose vehicle has room.
C10_SalvageWithinOwnerCapacity ==
    [][ (pc = "salvage" /\ pc' = "salvage" /\ routes' # routes) =>
            LET order == orders[Head(leftover)]
                Room(r) ==
                    /\ r.weight_used + order.weight_kg
                         <= vehicles[r.vehicle_id].max_weight_kg
                    /\ r.volume_used + order.volume_m3
                         <= vehicles[r.vehicle_id].max_volume_m3
            IN \A i \in 1..Len(routes) :
                  routes'[i] # routes[i] =>
                     /\ Room(routes[i])
                     /\ \A j \in 1..(i - 1) : ~Room(routes[j])
      ]_vars

SecondCall == Returned /\ calls = 2

\* C11: of two calls with the same orders and vehicles, the first without
\* and the second with 2-opt, the second returns for every vehicle a route
\* whose total_distance is at most that of the first.
C11_TwoOptNeverLonger ==
    (SecondCall /\ improve_with_2opt /\ ~previous.improve_with_2opt) =>
        /\ Len(result) = Len(previous.result)
        /\ \A i \in RouteIdx :
             /\ result[i].vehicle_id = previous.result[i].vehicle_id
             /\ result[i].total_distance <= previous.result[i].total_distance

\* the second of two such calls has returned a route of three stops that
\* travels
C11_Witness ==
    /\ SecondCall
    /\ improve_with_2opt
    /\ ~previous.improve_with_2opt
    /\ \E i \in RouteIdx :
         Len(result[i].stops) >= 3 /\ result[i].total_distance > 0

\* the pairs (i, j) of the scan of lines 319-320, 0-based
ReversalPairs(s) ==
    { p \in (0..(Len(s) - 2)) \X (2..(Len(s) - 1)) : p[2] >= p[1] + 2 }

\* C12: no reversal of a segment shortens a route returned with 2-opt, by
\* the distance from stop to stop over the locations of its orders.
C12_TwoOptLocallyOptimal ==
    (Returned /\ improve_with_2opt) =>
        \A i \in RouteIdx : \A p \in ReversalPairs(result[i].stops) :
            StopToStop(ReverseSegment(result[i].stops, p[1], p[2]), 1)
                >= StopToStop(result[i].stops, 1)

\* C13: once in _improve_with_2opt, optimize returns.
C13_TwoOptTerminates == (pc = "twoopt") ~> Returned

\* a scan over a route of three stops has ended without a reversal
C13_Witness ==
    /\ pc = "twoopt"
    /\ ri <= Len(routes)
    /\ ~improved
    /\ Len(routes[ri].stops) >= 3

SameOrders(s, t) ==
    /\ Len(s) = Len(t)
    /\ \A k \in Range(s) \cup Range(t) :
         Cardinality({ n \in 1..Len(s) : s[n] = k })
           = Cardinality({ n \in 1..Len(t) : t[n] = k })

\* C14: a step of _improve_with_2opt keeps the number and the order of the
\* routes, the vehicle and the load totals of each, and the orders of
\* each; the routes returned are the routes it ends with.
C14_TwoOptKeepsRoutes ==
    [][ pc = "twoopt" =>
          /\ Len(routes') = Len(routes)
          /\ \A i \in 1..Len(routes) :
               /\ routes'[i].vehicle_id = routes[i].vehicle_id
               /\ routes'[i].weight_used = routes[i].weight_used
               /\ routes'[i].volume_used = routes[i].volume_used
               /\ SameOrders(routes'[i].stops, routes[i].stops)
          /\ pc' = "done" => result' = routes
      ]_vars

\* 2-opt has gone through two routes, the second of more than one stop
C14_Witness ==
    /\ pc = "twoopt"
    /\ ri = 3
    /\ Len(routes) = 2
    /\ Len(routes[2].stops) >= 2

\* C15: a second call with the same orders, vehicles and improve_with_2opt,
\* on the same optimizer or on a fresh one, with the cache or without,
\* returns the routes the first call returned.
C15_Deterministic ==
    (SecondCall /\ improve_with_2opt = previous.improve_with_2opt) =>
        result = previous.result

\* the second call found its matrix in the cache and returned two routes
C15_Witness ==
    /\ SecondCall
    /\ improve_with_2opt = previous.improve_with_2opt
    /\ use_cache
    /\ locations \in DOMAIN cache
    /\ Len(result) >= 2

\* C16: total_distance and total_time_minutes of every returned route are
\* the metrics of its stops as returned, from the start of its vehicle
\* through the pickup and the delivery of each stop and to the end location
\* if there is one; the time is at least 45 minutes per stop.
C16_MetricsOfReturnedStops ==
    Returned =>
        \A i \in RouteIdx :
            LET route == result[i]
                metrics == CalculateRouteMetrics(route.stops, route.vehicle_id)
            IN /\ route.total_distance = metrics.total_distance
               /\ route.total_time_minutes = metrics.total_time_minutes
               /\ route.total_time_minutes >=
                      (PickupServiceMinutes + DeliveryServiceMinutes)
                          * Len(route.stops)

\* _extract_locations has run on a list of orders that is not empty
Extracted == pc # "call" /\ ~NoOrders(orders)

\* the locations in the order _extract_locations comes to them: the start
\* of each vehicle, then the pickup and the delivery of each order
ScanOrder ==
    [ k \in 1..Len(vehicles) |-> vehicles[k].start_location ]
      \o [ k \in 1..(2 * Len(orders)) |->
             IF k % 2 = 1 THEN orders[(k + 1) \div 2].pickup_location
             ELSE orders[k \div 2].delivery_location ]

FirstAt(s, x) == Min({ k \in 1..Len(s) : s[k] = x })

\* C17: the list of _extract_locations has no location twice, holds the
\* starts of the vehicles and the pickups and deliveries of the orders and
\* nothing else, in the order of their first occurrence.
C17_LocationsDistinctInScanOrder ==
    Extracted =>
        /\ \A a, b \in 1..Len(locations) :
             a < b => /\ locations[a] # locations[b]
                      /\ FirstAt(ScanOrder, locations[a])
                           < FirstAt(ScanOrder, locations[b])
        /\ Range(locations) = Range(ScanOrder)

\* a location came up twice, and a vehicle ends where nothing else is
C17_Witness ==
    /\ Extracted
    /\ Len(locations) >= 2
    /\ \E a, b \in 1..Len(ScanOrder) : a < b /\ ScanOrder[a] = ScanOrder[b]
    /\ \E k \in 1..Len(vehicles) :
         /\ vehicles[k].end_location # << >>
         /\ vehicles[k].end_location[1] \notin Range(ScanOrder)

\* compute_distance_matrix has been called on the list locations
MatrixReturned == calls > 1

\* C18: the matrix compute_distance_matrix returns for a list of N
\* locations has N rows of N entries, zero on the diagonal, and for i < j
\* the distance of the pair at [i][j] and again at [j][i].
C18_MatrixSquareSymmetricZeroDiagonal ==
    MatrixReturned =>
        LET n == Len(locations)
        IN /\ Len(distance_matrix) = n
           /\ \A i \in 1..n :
                /\ Len(distance_matrix[i]) = n
                /\ distance_matrix[i][i] = 0
                /\ \A j \in 1..n :
                     /\ distance_matrix[i][j] = distance_matrix[j][i]
                     /\ i < j => distance_matrix[i][j]
                                   = Haversine(locations[i], locations[j])

\* a matrix of two locations that are apart
C18_Witness ==
    /\ MatrixReturned
    /\ Len(locations) = 2
    /\ distance_matrix[1][2] > 0

\* C19: a call of compute_distance_matrix returns from the cache exactly
\* when the cache is in use and the same list, in the same order, was
\* computed since the cache was last empty; the matrix returned is the one
\* computed from the list; a miss adds an entry for the list and a hit
\* changes nothing; without the cache in use the cache stays empty.
C19_CacheHitOnSameListOnly ==
    [][ /\ calls' = calls + 1 =>
             /\ hit' <=> (use_cache /\ locations' \in since_clear)
             /\ distance_matrix' = ComputeMatrix(locations')
             /\ hit' => cache' = cache
             /\ (use_cache /\ ~hit') =>
                  /\ DOMAIN cache' = DOMAIN cache \cup { locations' }
                  /\ \A k \in DOMAIN cache : cache'[k] = cache[k]
        /\ ~use_cache => cache' = << >>
      ]_vars

\* a hit, with two lists of the same locations in the cache
C19_Witness ==
    /\ MatrixReturned
    /\ hit
    /\ \E a, b \in DOMAIN cache :
         a # b /\ Len(a) = Len(b) /\ Range(a) = Range(b)

RECURSIVE RunningTotal(_, _, _)
\* the sum of the field f of the first n loads
RunningTotal(loads, n, f) ==
    IF n = 0 THEN 0 ELSE RunningTotal(loads, n - 1, f) + loads[n][f]

\* C20: validate returns True if and only if after every load the running
\* weight is at most max_weight_kg and the running volume at most
\* max_volume_m3; so True for no loads and for totals at the maximum.
C20_ValidIffEveryPrefixWithin ==
    (pc = "done") =>
        (valid <=>
            \A n \in 1..Len(route_loads) :
                /\ RunningTotal(route_loads, n, 1) <= constraint.max_weight_kg
                /\ RunningTotal(route_loads, n, 2) <= constraint.max_volume_m3)

\* two loads that bring the weight to its maximum exactly, accepted
C20_Witness ==
    /\ pc = "done"
    /\ valid
    /\ Len(route_loads) = 2
    /\ RunningTotal(route_loads, 2, 1) = constraint.max_weight_kg
    /\ constraint.max_weight_kg > 0

\* C27: every scan of _improve_with_2opt ends without a reversal, the
\* routes stay as the greedy and salvage passes left them, and of two calls
\* on the same orders and vehicles, one with 2-opt and one without, the
\* second returns the routes of the first.
C27_TwoOptReturnsInitialRoutes ==
    [][ /\ (pc = "twoopt" /\ ri <= Len(routes)) =>
             /\ routes' = routes
             /\ improved => (~improved' /\ stops' = routes[ri].stops)
        /\ (pc' = "done" /\ calls = 2
              /\ improve_with_2opt # previous.improve_with_2opt) =>
             result' = previous.result
      ]_vars

\* the call without 2-opt has returned, after the call with it, a route
\* that a reversal would shorten
C27_Witness ==
    /\ SecondCall
    /\ ~improve_with_2opt
    /\ previous.improve_with_2opt
    /\ \E i \in RouteIdx : \E p \in ReversalPairs(result[i].stops) :
         StopToStop(ReverseSegment(result[i].stops, p[1], p[2]), 1)
             < StopToStop(result[i].stops, 1)

\* routes[i] is the route of vehicles[i] for every route
Aligned == \A i \in 1..Len(routes) : routes[i].vehicle_id = i

\* C28: with every route at the position of its vehicle, a step of the
\* salvage pass leaves the routes as they are; a step that attaches an
\* order attaches it to a route that is not at the position of its vehicle.
C28_SalvageAttachesOnlyMisaligned ==
    [][ (pc = "salvage" /\ leftover # << >>) =>
            /\ Aligned => routes' = routes
            /\ \A i \in 1..Len(routes) :
                 routes'[i] # routes[i] => routes[i].vehicle_id # i
      ]_vars

\* the salvage pass has gone through a leftover order, with two routes at
\* the positions of their vehicles
C28_Witness ==
    /\ pc = "salvage"
    /\ leftover = << >>
    /\ Aligned
    /\ Len(routes) = 2
    /\ unassigned # {}

\* C29: a step of the salvage pass that attaches an order changes one
\* route only: the order is appended to its stops, its weight and volume
\* are added to weight_used and volume_used, and total_distance,
\* total_time_minutes and vehicle_id stay.
C29_SalvageChangesOneRoute ==
    [][ (pc = "salvage" /\ leftover # << >> /\ routes' # routes) =>
            LET order_idx == Head(leftover)
                order == orders[order_idx]
            IN /\ Len(routes') = Len(routes)
               /\ \E i \in 1..Len(routes) :
                    /\ \A j \in 1..Len(routes) : j # i => routes'[j] = routes[j]
                    /\ routes'[i].stops = Append(routes[i].stops, order_idx)
                    /\ routes'[i].weight_used
                         = routes[i].weight_used + order.weight_kg
                    /\ routes'[i].volume_used
                         = routes[i].volume_used + order.volume_m3
                    /\ routes'[i].total_distance = routes[i].total_distance
                    /\ routes'[i].total_time_minutes
                         = routes[i].total_time_minutes
                    /\ routes'[i].vehicle_id = routes[i].vehicle_id
      ]_vars

\* the salvage pass has attached an order to the second of two routes
C29_Witness ==
    /\ pc = "salvage"
    /\ leftover = << >>
    /\ Len(routes) = 2
    /\ routes[2].stops # << >>
    /\ routes[2].stops[Len(routes[2].stops)] \in unassigned

\* C30: no step of optimize changes the orders, the vehicles or the
\* use_cache flag of the optimizer; the cache changes only with use_cache
\* set, where compute_distance_matrix is called, and only by an entry for
\* the location list of the call.
C30_InputsAndOptimizerKept ==
    [][ /\ orders' = orders
        /\ vehicles' = vehicles
        /\ use_cache' = use_cache
        /\ cache' # cache =>
             /\ use_cache
             /\ pc = "call"
             /\ DOMAIN cache' = DOMAIN cache \cup { locations' }
             /\ \A k \in DOMAIN cache : cache'[k] = cache[k]
      ]_vars

\* a call with the cache in use has stored a matrix and returned two routes
C30_Witness ==
    /\ Returned
    /\ calls = 1
    /\ use_cache
    /\ DOMAIN cache = { locations }
    /\ Len(result) >= 2

\* the pairs of zip(time_windows, arrival_times)
Paired == 1..Min({ Len(args.time_windows), Len(args.arrival_times) })

\* C21: TimeWindowConstraint.validate returns True if and only if every
\* paired arrival, as minute of the day of start_time + arrival, is from
\* the earliest to the latest minute of its window, both included.
C21_WindowsValidIffEveryArrivalInside ==
    (pc = "done") =>
        (valid <=>
            \A k \in Paired :
                LET m == (args.start_time + args.arrival_times[k])
                            % MinutesPerDay
                    tw == args.time_windows[k]
                IN /\ tw.earliest.hour * 60 + tw.earliest.minute <= m
                   /\ m <= tw.latest.hour * 60 + tw.latest.minute)

\* accepted: two arrivals past midnight, one at the earliest minute of its
\* window and one at the latest minute of its window
C21_Witness ==
    /\ pc = "done"
    /\ valid
    /\ Len(args.time_windows) = 2
    /\ Len(args.arrival_times) = 2
    /\ args.start_time + args.arrival_times[1]
         = MinutesPerDay + MinuteOfDay(args.time_windows[1].earliest)
    /\ args.start_time + args.arrival_times[2]
         = MinutesPerDay + MinuteOfDay(args.time_windows[2].latest)
    /\ MinuteOfDay(args.time_windows[1].earliest) > 0
    /\ MinuteOfDay(args.time_windows[2].latest)
         > MinuteOfDay(args.time_windows[2].earliest)

\* C23: validate(zones), and check_zones(zones, excluded_zones) as well,
\* returns False if and only if a zone of the list is in the excluded set,
\* and check_zones leaves the constraints of the checker as they are.
C23_ZonesValidIffNoneExcluded ==
    [][ (pc = "call" /\ pc' # "call") =>
            /\ valid' <=> (Range(args.zones) \cap args.excluded_zones = {})
            /\ pc' = "checked" => constraints' = constraints
      ]_vars

\* check_zones has refused a list whose second zone is excluded, on a
\* checker that holds a constraint
C23_Witness ==
    /\ pc = "checked"
    /\ ~valid
    /\ constraints # << >>
    /\ Len(args.zones) = 2
    /\ args.zones[1] \notin args.excluded_zones

\* the minutes of a float of whole and half hours
HoursInMinutes(x) == 60 * x.int + 30 * Bit(x.frac, 1)

\* C22: DriverHoursConstraint.validate returns False if and only if the
\* total is more than max_shift_hours, or the driving is more than
\* break_after_hours and the total is less than the driving and the
\* mandatory break together.
C22_DriverHoursValidIffShiftAndBreak ==
    (pc = "done") =>
        (~valid <=>
            \/ args.total_time_minutes
                 > HoursInMinutes(constraint.max_shift_hours)
            \/ /\ args.driving_time_minutes
                    > HoursInMinutes(constraint.break_after_hours)
               /\ args.total_time_minutes
                    < args.driving_time_minutes
                        + HoursInMinutes(constraint.mandatory_break_hours))

\* ------------------------------------------------------------------------
\* The /optimize handler of the order API (services/order/src/api.py,
\* optimize_routes): the request's orders and vehicles go to a RouteOptimizer
\* without distance cache, and the routes come back with the order ids in
\* the place of the order indices.

\* the ids a request gives its n orders: each its own, in decreasing order,
\* or the last order under the id of the first
RequestIds(n) ==
    { [ k \in 1..n |-> n + 1 - k ],
      [ k \in 1..n |-> IF k = n THEN 1 ELSE k ] }

\* RouteOptimizer(use_distance_cache=False), line 189, on the request
InitApi ==
    /\ \E in \in Inputs : InitOptimizer(in)
    /\ ~use_cache
    /\ constraint = [ max_weight_kg |-> 0, max_volume_m3 |-> 0 ]
    /\ route_loads = << >>
    /\ valid = FALSE
    /\ args = << >>
    /\ constraints = << >>
    /\ request_ids \in RequestIds(Len(orders))
    /\ response = NoResponse
    /\ NewStores
    /\ NewEngine
    /\ NewTracker

\* the stops of one API route, lines 199-214
ApiStops(ids, opt_stops) ==
    [ k \in 1..Len(opt_stops) |->
        [ order_id |-> ids[opt_stops[k]],
          arrival_time_minutes |-> 45 * (k - 1),
          service_time_minutes |-> 30 ] ]

\* the loop of lines 198-225
ApiRoutes(ids, optimized_routes) ==
    [ i \in 1..Len(optimized_routes) |->
        [ vehicle_id |-> optimized_routes[i].vehicle_id,
          stops |-> ApiStops(ids, optimized_routes[i].stops) ] ]

\* assigned_orders after the loop, lines 196 and 204
AssignedOrders(ids, optimized_routes) ==
    UNION { { ids[optimized_routes[i].stops[k]] :
                k \in 1..Len(optimized_routes[i].stops) } :
            i \in 1..Len(optimized_routes) }

\* mutant: every id of the request is listed
UnassignedOrdersAll(ids, assigned_orders) == ids

\* the list of lines 228-230
UnassignedOrders(ids, assigned_orders) ==
    LET Absent(id) == id \notin assigned_orders
    IN SelectSeq(ids, Absent)

\* optimize_routes from the conversion of the routes to the return,
\* lines 194-240
OptimizeRoutes ==
    /\ pc = "done"
    /\ response' =
         [ routes |-> ApiRoutes(request_ids, result),
           unassigned_orders |->
               UnassignedOrders(request_ids,
                                AssignedOrders(request_ids, result)) ]
    /\ pc' = "responded"
    /\ UNCHANGED << orders, vehicles, improve_with_2opt, use_cache, caller,
                    matrix_client, capacity_check, checker, request_ids,
                    simulation, tracker, store, cache, locations,
                    distance_matrix, routes,
                    unassigned, vi, greedy_locals, leftover, twoopt_locals,
                    result >>

NextApi == Next \/ OptimizeRoutes

SpecApi == InitApi /\ [][NextApi]_vars

\* the order ids of the stops of the routes of the response, route after
\* route
RECURSIVE ResponseStopIds(_)
ResponseStopIds(rs) ==
    IF rs = << >> THEN << >>
    ELSE [ k \in 1..Len(Head(rs).stops) |-> Head(rs).stops[k].order_id ]
         \o ResponseStopIds(Tail(rs))

\* how many times x is in the sequence s
Occurrences(s, x) == Cardinality({ k \in 1..Len(s) : s[k] = x })

DistinctIds == \A k, l \in 1..Len(request_ids) :
                   request_ids[k] = request_ids[l] => k = l

\* C24: for a request whose order ids are distinct, every id of the request
\* is exactly once in the stops of the routes and unassigned_orders taken
\* together, nothing else is in them, and unassigned_orders lists the ids
\* that are in no route in the order of the request.
C24_ResponsePartitionsOrderIds ==
    (pc = "responded" /\ DistinctIds) =>
        LET in_routes == ResponseStopIds(response.routes)
            listed == in_routes \o response.unassigned_orders
            InNoRoute(id) == id \notin Range(in_routes)
        IN /\ Range(listed) = Range(request_ids)
           /\ \A id \in Range(request_ids) : Occurrences(listed, id) = 1
           /\ response.unassigned_orders = SelectSeq(request_ids, InNoRoute)

\* a response to three orders of distinct ids: one in a route, and the first
\* and the last of the request unassigned
C24_Witness ==
    /\ pc = "responded"
    /\ DistinctIds
    /\ Len(request_ids) = 3
    /\ Len(response.routes) = 1
    /\ response.unassigned_orders = << request_ids[1], request_ids[3] >>

\* ------------------------------------------------------------------------
\* The discrete-event engine (packages/simulation/engine.py): events are
\* records of time, event_type and entity_id, the event queue is the list
\* heapq keeps, compared by time alone (Event.__lt__, lines 33-35).

EventTypes == { "order_arrival", "pickup_start", "simulation_end" }
CallbackNames == { "a", "b" }
Times == 0..MaxTime

\* the events the callers schedule: order arrivals, as in the tests
Events == [ time : Times, event_type : { "order_arrival" },
            entity_id : 1..MaxEvents ]

\* the event types the callers subscribe to
SubscribedTypes == { "order_arrival", "pickup_start" }

\* heapq._siftdown: the item moves from pos towards startpos past every
\* parent it is less than
RECURSIVE SiftDown(_, _, _, _)
SiftDown(heap, startpos, pos, newitem) ==
    IF pos > startpos /\ newitem.time < heap[pos \div 2].time
    THEN SiftDown([ heap EXCEPT ![pos] = heap[pos \div 2] ], startpos,
                  pos \div 2, newitem)
    ELSE [ heap EXCEPT ![pos] = newitem ]

\* heapq._siftup: the smaller child moves up until pos is a leaf, then the
\* item sifts down from there
RECURSIVE SiftUp(_, _, _, _)
SiftUp(heap, startpos, pos, newitem) ==
    LET childpos == 2 * pos
        rightpos == childpos + 1
        smaller == IF /\ rightpos <= Len(heap)
                      /\ ~(heap[childpos].time < heap[rightpos].time)
                   THEN rightpos
                   ELSE childpos
    IN IF childpos <= Len(heap)
       THEN SiftUp([ heap EXCEPT ![pos] = heap[smaller] ], startpos, smaller,
                   newitem)
       ELSE SiftDown([ heap EXCEPT ![pos] = newitem ], startpos, pos, newitem)

\* heapq.heappush, line 75
HeapPush(heap, item) == SiftDown(Append(heap, item), 1, Len(heap) + 1, item)

\* heapq.heappop, line 124: the item returned and the list left
HeapPopItem(heap) == IF Len(heap) > 1 THEN heap[1] ELSE heap[Len(heap)]

HeapPopRest(heap) ==
    LET lastelt == heap[Len(heap)]
        rest == SubSeq(heap, 1, Len(heap) - 1)
    IN IF rest = << >> THEN rest
       ELSE SiftUp([ rest EXCEPT ![1] = lastelt ], 1, 1, lastelt)

\* _dispatch_event, lines 94-99: the callbacks called with the event, in
\* order
Dispatch(event) ==
    [ event |-> event,
      called |-> IF event.event_type \in DOMAIN callbacks
                 THEN callbacks[event.event_type]
                 ELSE << >> ]

\* mutant: the event past end_time stays in the queue
RECURSIVE RunLoopRequeue(_, _, _, _)
RunLoopRequeue(queue, until, now, log) ==
    IF queue = << >>
    THEN [ event_queue |-> queue, current_time |-> now, received |-> log ]
    ELSE LET event == HeapPopItem(queue)
             rest == HeapPopRest(queue)
         IN IF event.time > until
            THEN [ event_queue |-> queue, current_time |-> now,
                   received |-> log ]
            ELSE RunLoopRequeue(rest, until, event.time,
                                Append(log, Dispatch(event)))

\* the loop of run, lines 123-130
RECURSIVE RunLoop(_, _, _, _)
RunLoop(queue, until, now, log) ==
    IF queue = << >>
    THEN [ event_queue |-> queue, current_time |-> now, received |-> log ]
    ELSE LET event == HeapPopItem(queue)
             rest == HeapPopRest(queue)
         IN IF event.time > until
            THEN [ event_queue |-> rest, current_time |-> now,
                   received |-> log ]
            ELSE RunLoop(rest, until, event.time,
                         Append(log, Dispatch(event)))

\* what the engine does not touch
outside_engine == << orders, vehicles, improve_with_2opt, use_cache, previous,
                     matrix_client, capacity_check, checker, api, tracker,
                     store, cache, locations, distance_matrix, routes, unassigned,
                     vi, greedy_locals, leftover, twoopt_locals, result >>

\* SimulationEngine(), lines 55-67, beside an idle optimizer
InitSimulation ==
    /\ InitWith(<< << >>, << >> >>)
    /\ ~improve_with_2opt
    /\ ~use_cache

\* the entities with an event that was scheduled and not dispatched
Entities == { e.entity_id : e \in pending }

\* schedule_event(event), lines 69-75, for an event of the first entity
\* that has none scheduled; calls is one more than the number of runs
ScheduleEvent(event) ==
    /\ calls <= MaxRuns
    /\ Entities # 1..MaxEvents
    /\ event.entity_id = Min((1..MaxEvents) \ Entities)
    /\ event_queue' = HeapPush(event_queue, event)
    /\ pending' = pending \cup { event }
    /\ pc' = "schedule_event"
    /\ UNCHANGED << outside_engine, calls, callbacks, current_time, end_time,
                    received, follow_ups >>

\* how many callbacks are subscribed
Subscriptions ==
    LET Count(ty) == IF ty \in DOMAIN callbacks THEN Len(callbacks[ty])
                     ELSE 0
    IN Count("order_arrival") + Count("pickup_start")
         + Count("simulation_end")

\* subscribe(event_type, callback), lines 77-86
Subscribe(event_type, callback) ==
    /\ calls <= MaxRuns
    /\ Subscriptions < MaxSubscriptions
    /\ callbacks' =
         [ ty \in DOMAIN callbacks \cup { event_type } |->
             IF ty # event_type THEN callbacks[ty]
             ELSE IF ty \in DOMAIN callbacks
                  THEN Append(callbacks[ty], callback)
                  ELSE << callback >> ]
    /\ pc' = "subscribe"
    /\ UNCHANGED << outside_engine, calls, event_queue, current_time, end_time,
                    received, pending, follow_ups >>

\* run(end_time), lines 101-132
Run(until) ==
    LET queue == IF event_queue = << >>
                 THEN HeapPush(event_queue,
                               [ time |-> until,
                                 event_type |-> "simulation_end",
                                 entity_id |-> 0 ])
                 ELSE event_queue
        after == RunLoop(queue, until, 0, << >>)
    IN /\ calls <= MaxRuns
       /\ calls' = calls + 1
       /\ end_time' = until
       /\ event_queue' = after.event_queue
       /\ current_time' = after.current_time
       /\ received' = after.received
       /\ pending' = pending \ { after.received[k].event :
                                   k \in 1..Len(after.received) }
    /\ pc' = "run"
    /\ UNCHANGED << outside_engine, callbacks, follow_ups >>

\* reset, lines 220-225
Reset ==
    /\ calls <= MaxRuns
    /\ event_queue' = << >>
    /\ current_time' = 0
    /\ pending' = {}
    /\ pc' = "reset"
    /\ UNCHANGED << outside_engine, calls, callbacks, end_time, received,
                    follow_ups >>

NextSimulation ==
    \/ \E event \in Events : ScheduleEvent(event)
    \/ \E ty \in SubscribedTypes, cb \in CallbackNames : Subscribe(ty, cb)
    \/ \E until \in Times : Run(until)
    \/ Reset

SpecSimulation == InitSimulation /\ [][NextSimulation]_vars

\* C25: when run returns, the events it dispatched are in non-decreasing
\* order of time, no event scheduled before it with a time of end_time or
\* less is left undispatched, none was dispatched twice, and each dispatched
\* event went to exactly the callbacks subscribed to its type.
C25_RunDispatchesDueEventsInTimeOrder ==
    (pc = "run") =>
        /\ \A k, l \in 1..Len(received) :
               k < l => /\ received[k].event.time <= received[l].event.time
                        /\ received[k].event # received[l].event
        /\ \A e \in pending : e.time > end_time
        /\ \A k \in 1..Len(received) :
               LET ty == received[k].event.event_type
               IN received[k].called
                    = IF ty \in DOMAIN callbacks THEN callbacks[ty]
                      ELSE << >>

\* a window whose latest minute of the day is before its earliest
SpansMidnight(tw) == MinuteOfDay(tw.latest) < MinuteOfDay(tw.earliest)

\* C31: TimeWindowConstraint.validate returns False when a paired window has
\* its latest minute of the day before its earliest, whatever the arrival
\* and the start time; with lists of different lengths it returns what it
\* returns on the first min(len) entries of both, and True when there is no
\* pair.
C31_MidnightWindowRefusedSurplusIgnored ==
    (pc = "done") =>
        LET n == Min({ Len(args.time_windows), Len(args.arrival_times) })
        IN /\ (\E k \in Paired : SpansMidnight(args.time_windows[k]))
                 => ~valid
           /\ valid = ValidateWindows(SubSeq(args.time_windows, 1, n),
                                      SubSeq(args.arrival_times, 1, n),
                                      args.start_time)
           /\ n = 0 => valid

\* refused: one window from 01:00 to 00:30 and two arrivals, the first at
\* 01:00 sharp, the second without a window
C31_Witness ==
    /\ pc = "done"
    /\ ~valid
    /\ Len(args.time_windows) = 1
    /\ Len(args.arrival_times) = 2
    /\ SpansMidnight(args.time_windows[1])
    /\ (args.start_time + args.arrival_times[1]) % MinutesPerDay
         = MinuteOfDay(args.time_windows[1].earliest)

\* the events dispatched in the last run
Dispatched(log) == { log[k].event : k \in 1..Len(log) }

\* the events lost: scheduled, not dispatched and not in the queue
Lost == pending \ Range(event_queue)

\* C32: a run dispatches no event later than end_time; of the events of the
\* queue that are later than end_time it takes an earliest one off the
\* queue and leaves the others queued; an event lost this way is dispatched
\* by no later run; and the run dispatches a SIMULATION_END event exactly
\* when the queue was empty at its start.
C32_RunDropsFirstLateEvent ==
    [][ (calls' = calls + 1) =>
          LET late == { e \in Range(event_queue) : e.time > end_time' }
              left == Range(event_queue')
          IN /\ \A e \in Dispatched(received') : e.time <= end_time'
             /\ left \subseteq late
             /\ Len(event_queue') = Cardinality(left)
             /\ late # {} =>
                  /\ Cardinality(late \ left) = 1
                  /\ \A e \in late \ left, f \in late : e.time <= f.time
             /\ Dispatched(received') \cap Lost = {}
             /\ Lost \subseteq pending'
             /\ (event_queue = << >>)
                  <=> (\E e \in Dispatched(received') :
                          e.event_type = "simulation_end")
      ]_vars

\* after two runs an event is lost whose time the last run has reached, a
\* later event is lost too and a third is still queued
C32_Witness ==
    /\ pc = "run"
    /\ event_queue # << >>
    /\ \E e, f \in Lost : e.time <= end_time /\ f.time > end_time

\* ------------------------------------------------------------------------
\* run taken step by step, with callbacks that raise and callbacks that
\* schedule events while they handle one.

\* mutant: an exception of a callback leaves _dispatch_event
RECURSIVE DispatchLoopNoCatch(_, _, _, _)
DispatchLoopNoCatch(subscribed, raising, k, done) ==
    IF k > Len(subscribed) THEN done
    ELSE LET called == Append(done.called, subscribed[k])
         IN IF subscribed[k] \in raising
            THEN [ done EXCEPT !.called = called,
                               !.raised = Append(@, subscribed[k]),
                               !.propagated = TRUE ]
            ELSE DispatchLoopNoCatch(subscribed, raising, k + 1,
                                     [ done EXCEPT !.called = called ])

\* the loop of _dispatch_event, lines 95-99, from the callback k on: the
\* callbacks of raising raise an Exception when called
RECURSIVE DispatchLoop(_, _, _, _)
DispatchLoop(subscribed, raising, k, done) ==
    IF k > Len(subscribed) THEN done
    ELSE LET called == Append(done.called, subscribed[k])
         IN IF subscribed[k] \in raising
            THEN DispatchLoop(subscribed, raising, k + 1,
                              [ done EXCEPT !.called = called,
                                            !.raised = Append(@, subscribed[k]) ])
            ELSE DispatchLoop(subscribed, raising, k + 1,
                              [ done EXCEPT !.called = called ])

\* _dispatch_event, lines 94-99
DispatchEvent(event, raising) ==
    LET none == [ event |-> event, called |-> << >>, raised |-> << >>,
                  propagated |-> FALSE ]
    IN IF event.event_type \in DOMAIN callbacks
       THEN DispatchLoop(callbacks[event.event_type], raising, 1, none)
       ELSE none

\* mutant: current_time is left as the last run left it
RunStartKeepTime(until) ==
    /\ pc # "running"
    /\ calls <= MaxRuns
    /\ calls' = calls + 1
    /\ current_time' = current_time
    /\ end_time' = until
    /\ event_queue' =
         IF event_queue = << >>
         THEN HeapPush(event_queue, [ time |-> until,
                                      event_type |-> "simulation_end",
                                      entity_id |-> 0 ])
         ELSE event_queue
    /\ received' = << >>
    /\ follow_ups' = {}
    /\ pc' = "running"
    /\ UNCHANGED << outside_engine, callbacks, pending >>

\* run(end_time) up to the loop, lines 110-120
RunStart(until) ==
    /\ pc # "running"
    /\ calls <= MaxRuns
    /\ calls' = calls + 1
    /\ current_time' = 0
    /\ end_time' = until
    /\ event_queue' =
         IF event_queue = << >>
         THEN HeapPush(event_queue, [ time |-> until,
                                      event_type |-> "simulation_end",
                                      entity_id |-> 0 ])
         ELSE event_queue
    /\ received' = << >>
    /\ follow_ups' = {}
    /\ pc' = "running"
    /\ UNCHANGED << outside_engine, callbacks, pending >>

\* the entities no event of this run is of
FreeEntities(event) ==
    (1..MaxEvents) \ (Entities \cup { event.entity_id }
                        \cup { e.entity_id : e \in Dispatched(received) })

\* one turn of the loop, lines 123-130: the callbacks of raising raise, and
\* the callbacks schedule the events of scheduled, one at most
RunDispatch(raising, scheduled) ==
    /\ pc = "running"
    /\ event_queue # << >>
    /\ LET event == HeapPopItem(event_queue)
           rest == HeapPopRest(event_queue)
           dispatch == DispatchEvent(event, raising)
       IN /\ event.time <= end_time
          /\ raising \subseteq Range(dispatch.called)
          /\ scheduled # {} => dispatch.called # << >>
          /\ \A f \in scheduled :
                /\ FreeEntities(event) # {}
                /\ f.entity_id = Min(FreeEntities(event))
          /\ current_time' = event.time
          /\ received' = Append(received, dispatch)
          /\ event_queue' = IF scheduled = {} THEN rest
                            ELSE HeapPush(rest, CHOOSE f \in scheduled : TRUE)
          /\ pending' = (pending \ { event }) \cup scheduled
          /\ follow_ups' = follow_ups
                             \cup { [ event |-> f, handling |-> event ] :
                                      f \in scheduled }
          /\ pc' = IF dispatch.propagated THEN "raised" ELSE "running"
    /\ UNCHANGED << outside_engine, calls, callbacks, end_time >>

\* the break of lines 126-127 and the return
RunBreak ==
    /\ pc = "running"
    /\ event_queue # << >>
    /\ HeapPopItem(event_queue).time > end_time
    /\ event_queue' = HeapPopRest(event_queue)
    /\ pc' = "run"
    /\ UNCHANGED << outside_engine, calls, callbacks, current_time, end_time,
                    received, pending, follow_ups >>

\* the end of the loop on an empty queue, line 123, and the return
RunReturn ==
    /\ pc = "running"
    /\ event_queue = << >>
    /\ pc' = "run"
    /\ UNCHANGED << outside_engine, calls, simulation >>

NextRunning ==
    \/ \E event \in Events : pc # "running" /\ ScheduleEvent(event)
    \/ \E cb \in CallbackNames :
          pc # "running" /\ Subscribe("order_arrival", cb)
    \/ \E until \in Times : RunStart(until)
    \/ \E raising \in SUBSET CallbackNames,
          scheduled \in { {} } \cup { { f } : f \in Events } :
            RunDispatch(raising, scheduled)
    \/ RunBreak
    \/ RunReturn

SpecRunning == InitSimulation /\ [][NextRunning]_vars

\* no callback of the run has scheduled an event earlier than the event it
\* was handling
NoEarlierFollowUp == \A x \in follow_ups : x.event.time >= x.handling.time

\* C33: in a run current_time is 0 until the first event is dispatched and
\* the time of the last event dispatched from then on, it is never more than
\* end_time, the times it takes do not decrease as long as no callback has
\* scheduled an event earlier than the one it was handling, and when run
\* returns every event a callback scheduled in the run with a time of
\* end_time or less has been dispatched.
C33_CurrentTimeFollowsDispatch ==
    (pc \in { "running", "run" }) =>
        /\ current_time = IF received = << >> THEN 0
                          ELSE received[Len(received)].event.time
        /\ current_time <= end_time
        /\ NoEarlierFollowUp =>
              \A k, l \in 1..Len(received) :
                  k < l => received[k].event.time <= received[l].event.time
        /\ pc = "run" =>
              \A x \in follow_ups :
                  x.event.time <= end_time
                      => x.event \in Dispatched(received)

\* a run has returned after two events, the second of them scheduled by a
\* callback for a later time than the event it was handling, and another one
\* was scheduled by a callback past end_time
C33_Witness ==
    /\ pc = "run"
    /\ NoEarlierFollowUp
    /\ Len(received) = 2
    /\ \E x \in follow_ups :
          /\ x.event = received[2].event
          /\ x.event.time > x.handling.time
    /\ \E x \in follow_ups : x.event.time > end_time

\* ------------------------------------------------------------------------
\* VehicleTracker (services/tracking/src/tracker.py). Vehicle ids are
\* 1..MaxTracked, and one more that is never registered; stop locations and
\* vehicle positions are the coordinates of the optimizer model, 2 km apart;
\* a datetime returned by calculate_eta is the number of minutes from now.

TrackedVehicles == 1..MaxTracked
AnyVehicle == 1..(MaxTracked + 1)
StopStatus == { "pending", "arrived", "completed" }

\* the stop lists given to register_route: StopInfo(order_id, location) with
\* the default status, the order ids 1, 2, ... in turn
StopLists ==
    { [ k \in 1..Len(loc) |-> [ order_id |-> k, location |-> loc[k],
                                status |-> "pending" ] ] :
        loc \in SeqsUpTo(Coords, MaxStops) }

\* a dict with one entry set
Put(dict, key, value) ==
    [ k \in DOMAIN dict \cup { key } |-> IF k = key THEN value ELSE dict[k] ]

\* the loop of _emit_event, lines 235-239, from the callback k on: the
\* callbacks of raising raise an Exception when called
RECURSIVE EmitLoop(_, _, _, _)
EmitLoop(registered, raising, k, done) ==
    IF k > Len(registered) THEN done
    ELSE LET called == Append(done.called, registered[k])
         IN IF registered[k] \in raising
            THEN EmitLoop(registered, raising, k + 1,
                          [ done EXCEPT !.called = called,
                                        !.raised = Append(@, registered[k]) ])
            ELSE EmitLoop(registered, raising, k + 1,
                          [ done EXCEPT !.called = called ])

\* _emit_event(event_type, data), lines 228-239
EmitEvent(event_type, data, raising) ==
    EmitLoop(tracker_callbacks, raising, 1,
             [ NoEmission EXCEPT !.event_type = event_type, !.data = data ])

\* _haversine_distance, lines 242-269, on the coordinates of the model
HaversineDistance(loc1, loc2) ==
    IF loc1 >= loc2 THEN 2 * (loc1 - loc2) ELSE 2 * (loc2 - loc1)

\* the search of lines 95-99, from the stop i on
RECURSIVE NextStopIdx(_, _)
NextStopIdx(stop_list, i) ==
    IF i > Len(stop_list) THEN 1
    ELSE IF stop_list[i].status = "pending" THEN i
    ELSE NextStopIdx(stop_list, i + 1)

\* mutant: the stops that are not pending are left out of the sum
RECURSIVE EtaLoopPendingOnly(_, _, _, _)
EtaLoopPendingOnly(stop_list, i, location, total_minutes) ==
    IF i > Len(stop_list) THEN total_minutes
    ELSE IF stop_list[i].status # "pending"
    THEN EtaLoopPendingOnly(stop_list, i + 1, location, total_minutes)
    ELSE LET distance == HaversineDistance(location, stop_list[i].location)
             travel_minutes == (distance * 60) \div AvgSpeedKmh
         IN EtaLoopPendingOnly(stop_list, i + 1, stop_list[i].location,
                               total_minutes + travel_minutes
                                 + ServiceTimeMinutes)

\* the loop of lines 105-116, from the stop i on
RECURSIVE EtaLoop(_, _, _, _)
EtaLoop(stop_list, i, location, total_minutes) ==
    IF i > Len(stop_list) THEN total_minutes
    ELSE LET distance == HaversineDistance(location, stop_list[i].location)
             travel_minutes == (distance * 60) \div AvgSpeedKmh
         IN EtaLoop(stop_list, i + 1, stop_list[i].location,
                    total_minutes + travel_minutes + ServiceTimeMinutes)

\* calculate_eta(vehicle_id), lines 83-118: nothing, or the minutes
Eta(vehicle_id) ==
    IF vehicle_id \notin DOMAIN tracker_routes THEN << >>
    ELSE IF vehicle_id \notin DOMAIN positions THEN << >>
    ELSE IF tracker_routes[vehicle_id] = << >> THEN << >>
    ELSE LET stop_list == tracker_routes[vehicle_id]
         IN << EtaLoop(stop_list, NextStopIdx(stop_list, 1),
                       positions[vehicle_id].location, 0) >>

\* what the tracker does not touch
outside_tracker == << orders, vehicles, improve_with_2opt, use_cache, caller,
                      matrix_client, capacity_check, checker, api,
                      simulation, store, cache, locations, distance_matrix, routes,
                      unassigned, vi, greedy_locals, leftover, twoopt_locals,
                      result >>

\* update_position(position), lines 45-52
UpdatePosition(position, raising) ==
    /\ raising \subseteq Range(tracker_callbacks)
    /\ positions' = Put(positions, position.vehicle_id, position)
    /\ emitted' = EmitEvent("position_updated",
                             << position.vehicle_id, position.location >>,
                             raising)
    /\ eta' = NoEta
    /\ pc' = IF emitted'.propagated THEN "raised" ELSE "update_position"
    /\ UNCHANGED << outside_tracker, tracker_routes, tracker_callbacks >>

\* register_route(vehicle_id, stops), lines 54-61
RegisterRoute(vehicle_id, stop_list) ==
    /\ tracker_routes' = Put(tracker_routes, vehicle_id, stop_list)
    /\ emitted' = NoEmission
    /\ eta' = NoEta
    /\ pc' = "register_route"
    /\ UNCHANGED << outside_tracker, positions, tracker_callbacks >>

\* register_callback(callback), lines 220-226
RegisterCallback(callback) ==
    /\ Len(tracker_callbacks) < MaxSubscriptions
    /\ tracker_callbacks' = Append(tracker_callbacks, callback)
    /\ emitted' = NoEmission
    /\ eta' = NoEta
    /\ pc' = "register_callback"
    /\ UNCHANGED << outside_tracker, positions, tracker_routes >>

\* the first stop of the list with the order id, 0 if there is none
RECURSIVE FindStop(_, _, _)
FindStop(stop_list, order_id, i) ==
    IF i > Len(stop_list) THEN 0
    ELSE IF stop_list[i].order_id = order_id THEN i
    ELSE FindStop(stop_list, order_id, i + 1)

\* mark_stop_arrived (lines 191-207) and mark_stop_completed (lines
\* 173-189): the status given to the first stop of the order, and the event
MarkStop(vehicle_id, order_id, status, event_type, raising) ==
    /\ raising \subseteq Range(tracker_callbacks)
    /\ LET found == IF vehicle_id \in DOMAIN tracker_routes
                    THEN FindStop(tracker_routes[vehicle_id], order_id, 1)
                    ELSE 0
       IN IF found = 0
          THEN /\ raising = {}
               /\ tracker_routes' = tracker_routes
               /\ emitted' = NoEmission
               /\ pc' = event_type
          ELSE /\ tracker_routes' =
                    [ tracker_routes EXCEPT
                        ![vehicle_id][found].status = status ]
               /\ emitted' = EmitEvent(event_type,
                                        << vehicle_id, order_id >>, raising)
               /\ pc' = IF emitted'.propagated THEN "raised" ELSE event_type
    /\ eta' = NoEta
    /\ UNCHANGED << outside_tracker, positions, tracker_callbacks >>

\* calculate_eta(vehicle_id)
CalculateEta(vehicle_id) ==
    /\ eta' = [ vehicle_id |-> vehicle_id, minutes |-> Eta(vehicle_id) ]
    /\ emitted' = NoEmission
    /\ pc' = "calculate_eta"
    /\ UNCHANGED << outside_tracker, positions, tracker_routes,
                    tracker_callbacks >>

NextTracker ==
    \/ \E v \in TrackedVehicles, c \in Coords,
          raising \in SUBSET CallbackNames :
            UpdatePosition([ vehicle_id |-> v, location |-> c ], raising)
    \/ \E v \in TrackedVehicles, stop_list \in StopLists :
            RegisterRoute(v, stop_list)
    \/ \E cb \in CallbackNames : RegisterCallback(cb)
    \/ \E v \in AnyVehicle, o \in 1..(MaxStops + 1),
          raising \in SUBSET CallbackNames :
            MarkStop(v, o, "arrived", "stop_arrived", raising)
    \/ \E v \in AnyVehicle, o \in 1..(MaxStops + 1),
          raising \in SUBSET CallbackNames :
            MarkStop(v, o, "completed", "stop_completed", raising)
    \/ \E v \in AnyVehicle : CalculateEta(v)

SpecTracker == InitSimulation /\ [][NextTracker]_vars

\* the first pending stop of a list, the first stop if none is pending
FirstCounted(stop_list) ==
    LET waiting == { k \in 1..Len(stop_list) :
                       stop_list[k].status = "pending" }
    IN IF waiting = {} THEN 1 ELSE Min(waiting)

\* the minutes from location over the stops from the stop first to the
\* last: 3 minutes for each 2 km and the service time at each stop
MinutesOver(stop_list, first, location) ==
    LET From(k) == IF k = first THEN location ELSE stop_list[k - 1].location
        Gap(k) == IF From(k) >= stop_list[k].location
                  THEN From(k) - stop_list[k].location
                  ELSE stop_list[k].location - From(k)
        Total[k \in (first - 1)..Len(stop_list)] ==
            IF k < first THEN 0
            ELSE Total[k - 1] + 3 * Gap(k) + ServiceTimeMinutes
    IN Total[Len(stop_list)]

\* C35: calculate_eta returns None for a vehicle without a registered route,
\* without a recorded position or with an empty stop list; otherwise the
\* travel and service minutes over the stops from the first pending stop to
\* the last, whatever the status of the later ones, and over all stops when
\* none is pending.
C35_EtaFromFirstPendingStop ==
    (pc = "calculate_eta") =>
        LET v == eta.vehicle_id
        IN IF \/ v \notin DOMAIN tracker_routes
              \/ v \notin DOMAIN positions
              \/ tracker_routes[v] = << >>
           THEN eta.minutes = << >>
           ELSE eta.minutes =
                  << MinutesOver(tracker_routes[v],
                                 FirstCounted(tracker_routes[v]),
                                 positions[v].location) >>

\* an ETA for three stops, completed, pending and completed in turn, away
\* from each other and from the vehicle
C35_Witness ==
    /\ pc = "calculate_eta"
    /\ eta.minutes # << >>
    /\ LET stop_list == tracker_routes[eta.vehicle_id]
       IN /\ Len(stop_list) = 3
          /\ stop_list[1].status = "completed"
          /\ stop_list[2].status = "pending"
          /\ stop_list[3].status = "completed"
          /\ stop_list[2].location # stop_list[3].location
          /\ stop_list[1].location # stop_list[2].location
          /\ positions[eta.vehicle_id].location # stop_list[2].location

\* ------------------------------------------------------------------------
\* an engine or a tracker with callbacks that raise: the one is used while
\* the other is as constructed

NextCallbacks ==
    \/ NewTracker /\ NextRunning
    \/ NewEngine /\ calls = 1 /\ NextTracker

SpecCallbacks == InitSimulation /\ [][NextCallbacks]_vars

\* the callbacks subscribed to an event type
SubscribedTo(event_type) ==
    IF event_type \in DOMAIN callbacks THEN callbacks[event_type] ELSE << >>

\* C34: an exception of a callback is kept inside the call of that callback:
\* every event dispatched has been given to all the callbacks subscribed to
\* its type in subscription order, run goes on to the later events and
\* returns with no event of end_time or earlier left in the queue; and an
\* event of the tracker has been given to all its callbacks in registration
\* order, with the position stored or the stop marked and the call returned.
C34_RaisingCallbackIsolated ==
    /\ pc # "raised"
    /\ pc \in { "running", "run" } =>
          \A k \in 1..Len(received) :
              /\ received[k].called
                   = SubscribedTo(received[k].event.event_type)
              /\ ~received[k].propagated
    /\ pc = "run" => \A e \in Range(event_queue) : e.time > end_time
    /\ emitted.event_type # "" =>
          /\ emitted.called = tracker_callbacks
          /\ ~emitted.propagated
          /\ pc = emitted.event_type \/ pc = "update_position"
    /\ emitted.event_type = "position_updated" =>
          positions[emitted.data[1]].location = emitted.data[2]
    /\ emitted.event_type \in { "stop_arrived", "stop_completed" } =>
          LET stop_list == tracker_routes[emitted.data[1]]
              marked == Min({ k \in 1..Len(stop_list) :
                                stop_list[k].order_id = emitted.data[2] })
          IN stop_list[marked].status
               = IF emitted.event_type = "stop_arrived" THEN "arrived"
                 ELSE "completed"

\* a run has returned after two events: the first of the two callbacks
\* raised on the first event, the second was called all the same, and both
\* were called for the second event
C34_Witness ==
    /\ pc = "run"
    /\ Len(received) = 2
    /\ received[1].called = << "a", "b" >>
    /\ received[1].raised = << "a" >>
    /\ received[2].called = << "a", "b" >>

\* ------------------------------------------------------------------------
\* The in-memory stores of the order API (services/order/src/api.py,
\* create_app): orders_db, vehicles_db and routes_db are dicts by id that the
\* handlers of one application share. A handler is a coroutine without an
\* await, so a request is answered in one step; an HTTPException is the
\* status code of the answer.

OrderIds == 1..MaxStored

FleetIds == 1..MaxFleet

\* OrderStatus values that requests carry: the default and one more
StatusValues == { "pending", "assigned" }

\* bodies of POST /orders; status is PENDING unless given (models.py line 35)
OrderBodies ==
    [ id : OrderIds, weight_kg : 1..MaxStoredWeight, status : { "pending" } ]

\* bodies of POST /vehicles
VehicleBodies == [ id : FleetIds, max_weight_kg : 1..MaxStoredWeight ]

\* bodies of POST /routes
RouteBodies == [ id : FleetIds, vehicle_id : 1..MaxStoredWeight ]

\* the requests /optimize is asked with beside the stores: no order and no
\* vehicle, three orders that one vehicle tours, and two orders of which the
\* one vehicle can carry the lighter only
StoreInputs ==
    { in \in Inputs : Len(in[1]) + Len(in[2]) = 0 }
    \cup { in \in TourInputs :
             /\ Len(in[1]) = TourMaxOrders
             /\ in[2][1].start_location = 0
             /\ in[2][1].end_location = << >>
             /\ \A k \in 1..Len(in[1]) :
                    /\ in[1][k].pickup_location = k % 2
                    /\ in[1][k].delivery_location = k % 2 }
    \cup { in \in CapacityInputs :
             /\ Len(in[1]) = 2 /\ Len(in[2]) = 1
             /\ in[1][1].weight_kg = 2 /\ in[1][2].weight_kg = 1
             /\ in[2][1].max_weight_kg = 1 }

\* create_app, lines 26-35, and a request for /optimize about to come
InitStore ==
    /\ \E in \in StoreInputs : InitOptimizer(in)
    /\ ~use_cache
    /\ constraint = [ max_weight_kg |-> 0, max_volume_m3 |-> 0 ]
    /\ route_loads = << >>
    /\ valid = FALSE
    /\ args = << >>
    /\ constraints = << >>
    /\ request_ids \in RequestIds(Len(orders))
    /\ response = NoResponse
    /\ NewStores
    /\ NewEngine
    /\ NewTracker

outside_store == << orders, vehicles, improve_with_2opt, use_cache, caller,
                    matrix_client, capacity_check, checker, api, simulation,
                    tracker, cache, pc, locations, distance_matrix, routes,
                    unassigned, vi, greedy_locals, leftover, twoopt_locals,
                    result >>

\* no handler is running: /optimize is not yet requested, or has answered
BetweenRequests == pc \in { "call", "responded" }

Answer(endpoint, id, status_code) ==
    [ endpoint |-> endpoint, id |-> id, status_code |-> status_code ]

\* mutant: the order is stored whether its id is known or not
CreateOrderOverwrite(order) ==
    /\ BetweenRequests
    /\ orders_db' = Put(orders_db, order.id, order)
    /\ store_response' = Answer("create_order", order.id, 200)
    /\ UNCHANGED << vehicles_db, routes_db, outside_store >>

\* create_order(order), lines 42-56
CreateOrder(order) ==
    /\ BetweenRequests
    /\ IF order.id \in DOMAIN orders_db
       THEN /\ store_response' = Answer("create_order", order.id, 409)
            /\ UNCHANGED orders_db
       ELSE /\ orders_db' = Put(orders_db, order.id, order)
            /\ store_response' = Answer("create_order", order.id, 200)
    /\ UNCHANGED << vehicles_db, routes_db, outside_store >>

\* get_order(order_id), lines 81-94
GetOrder(order_id) ==
    /\ BetweenRequests
    /\ store_response' =
         Answer("get_order", order_id,
                IF order_id \notin DOMAIN orders_db THEN 404 ELSE 200)
    /\ UNCHANGED << stores, outside_store >>

\* update_order_status(order_id, new_status), lines 96-112
UpdateOrderStatus(order_id, new_status) ==
    /\ BetweenRequests
    /\ IF order_id \notin DOMAIN orders_db
       THEN /\ store_response' = Answer("update_order_status", order_id, 404)
            /\ UNCHANGED orders_db
       ELSE /\ orders_db' =
                 [ orders_db EXCEPT ![order_id].status = new_status ]
            /\ store_response' = Answer("update_order_status", order_id, 200)
    /\ UNCHANGED << vehicles_db, routes_db, outside_store >>

\* create_vehicle(vehicle), lines 114-128
CreateVehicle(vehicle) ==
    /\ BetweenRequests
    /\ IF vehicle.id \in DOMAIN vehicles_db
       THEN /\ store_response' = Answer("create_vehicle", vehicle.id, 409)
            /\ UNCHANGED vehicles_db
       ELSE /\ vehicles_db' = Put(vehicles_db, vehicle.id, vehicle)
            /\ store_response' = Answer("create_vehicle", vehicle.id, 200)
    /\ UNCHANGED << orders_db, routes_db, outside_store >>

\* get_route(route_id), lines 251-264
GetRoute(route_id) ==
    /\ BetweenRequests
    /\ store_response' =
         Answer("get_route", route_id,
                IF route_id \notin DOMAIN routes_db THEN 404 ELSE 200)
    /\ UNCHANGED << stores, outside_store >>

\* create_route(route), lines 266-280
CreateRoute(route) ==
    /\ BetweenRequests
    /\ IF route.id \in DOMAIN routes_db
       THEN /\ store_response' = Answer("create_route", route.id, 409)
            /\ UNCHANGED routes_db
       ELSE /\ routes_db' = Put(routes_db, route.id, route)
            /\ store_response' = Answer("create_route", route.id, 200)
    /\ UNCHANGED << orders_db, vehicles_db, outside_store >>

NextStore ==
    \/ NextApi
    \/ \E order \in OrderBodies : CreateOrder(order)
    \/ \E order_id \in OrderIds : GetOrder(order_id)
    \/ \E order_id \in OrderIds, new_status \in StatusValues :
           UpdateOrderStatus(order_id, new_status)
    \/ \E vehicle \in VehicleBodies : CreateVehicle(vehicle)
    \/ \E route_id \in FleetIds : GetRoute(route_id)
    \/ \E route \in RouteBodies : CreateRoute(route)

SpecStore == InitStore /\ [][NextStore]_vars

\* the store an endpoint looks its id up in
StoreOf(endpoint) ==
    CASE endpoint \in { "create_order", "get_order", "update_order_status" }
           -> orders_db
      [] endpoint = "create_vehicle" -> vehicles_db
      [] endpoint \in { "create_route", "get_route" } -> routes_db

\* a request to a store is answered in this step
Answered == store_response' # store_response \/ stores' # stores

\* the record of every id of the store db is the same after the step
Kept(db, after) ==
    \A id \in DOMAIN db : id \in DOMAIN after /\ after[id] = db[id]

\* the order of every id stored is the same order after the step but for
\* its status, which only an accepted update of that id changes
OrdersKept ==
    \A id \in DOMAIN orders_db :
        /\ id \in DOMAIN orders_db'
        /\ [ orders_db'[id] EXCEPT !.status = orders_db[id].status ]
             = orders_db[id]
        /\ orders_db'[id].status # orders_db[id].status =>
             store_response' = Answer("update_order_status", id, 200)

\* a create under a stored id is answered 409, a read or a status update of
\* an unknown id 404, and a request so answered changes no store
Rejections ==
    Answered =>
        LET r == store_response'
            known == r.id \in DOMAIN StoreOf(r.endpoint)
        IN /\ r.endpoint \in { "create_order", "create_vehicle",
                               "create_route" } =>
                 r.status_code = IF known THEN 409 ELSE 200
           /\ r.endpoint \in { "get_order", "update_order_status",
                               "get_route" } =>
                 r.status_code = IF known THEN 200 ELSE 404
           /\ r.status_code \in { 404, 409 } => stores' = stores

\* the steps of /optimize change no store
OptimizeKeepsStores == (pc' # pc \/ response' # response) => stores' = stores

\* C36 as stated: rejected requests change nothing, every id of the three
\* stores maps to the record first created under it whatever the requests,
\* and /optimize changes no store.
C36_StoresKeepFirstRecord_Original ==
    [][ /\ Rejections
        /\ Kept(orders_db, orders_db')
        /\ Kept(vehicles_db, vehicles_db')
        /\ Kept(routes_db, routes_db')
        /\ OptimizeKeepsStores ]_vars

\* C36: creating an order, a vehicle or a route under an id that is stored
\* is answered 409, reading or updating an order of an unknown id and reading
\* a route of an unknown id is answered 404, and such a request changes none
\* of the three stores; every id maps to the record first created under it,
\* except that the status of an order is the one its last accepted status
\* update gave it; and the steps of /optimize change no store.
C36_StoresKeepFirstRecord ==
    [][ /\ Rejections
        /\ OrdersKept
        /\ Kept(vehicles_db, vehicles_db')
        /\ Kept(routes_db, routes_db')
        /\ OptimizeKeepsStores ]_vars

\* after /optimize has answered with a route, an order is created a second
\* time under an id whose order has had its status set, beside a stored
\* vehicle and a stored route
C36_Witness ==
    /\ pc = "responded"
    /\ response.routes # << >>
    /\ store_response = Answer("create_order", 1, 409)
    /\ 1 \in DOMAIN orders_db
    /\ orders_db[1].status = "assigned"
    /\ DOMAIN vehicles_db # {}
    /\ DOMAIN routes_db # {}

=============================================================================
